---- MODULE Spec2Model ----
(***************************************************************************)
(* A model of the appointment and reminder scheduling layer of the         *)
(* AminuUs backend: the appointment controllers and AppointmentsService,   *)
(* ReminderService and RemindersController, the time normaliser           *)
(* validateAndFormatPostgreSQLTime, the week and calendar views, the row  *)
(* mapper, the reminder router and sp_get_today_birthdays.                 *)
(*                                                                         *)
(* Eleven specifications share the variables:                              *)
(*   Spec          appointment requests handled one after the other        *)
(*   SpecBooking   two callers booking concurrently (check, then create)   *)
(*   SpecReminders getAllReminders, requests of every shape                *)
(*   SpecCounts    getAllReminders over many database snapshots            *)
(*   SpecTime      validateAndFormatPostgreSQLTime over bounded inputs     *)
(*   SpecEndpoints requests to every reminder endpoint, one at a time      *)
(*   SpecViews     the week and the calendar view over bounded row sets    *)
(*   SpecRoutes    one request to the reminder router                      *)
(*   SpecMapper    convertToAppointment over rows with aliased keys        *)
(*   SpecBirthdays sp_get_today_birthdays over days and client sets        *)
(*   SpecLifecycle two callers updating, completing, deleting a reminder   *)
(***************************************************************************)
EXTENDS Integers, Sequences, FiniteSets, TLC

(***************************************************************************)
(* Bounds of the model.                                                    *)
(***************************************************************************)
MaxTime == 3
MaxAppointments == 2

(***************************************************************************)
(* Value domains.  Times are slot boundaries of one day in increasing      *)
(* order (the storage type is TIME); an absent field of a request body is  *)
(* a falsy value, which the service turns into null with `|| null`.        *)
(***************************************************************************)
Agents == {"agentA", "agentB"}
Dates == {"2025-03-10", "2025-03-11"}
Callers == {"c1", "c2"}
Times == 1..MaxTime
AppointmentIds == 1..MaxAppointments
NoId == 0
NoTime == 0
NoDate == ""
Windows == {w \in Times \X Times : w[1] < w[2]}
ReqWindows == Windows \cup {<<NoTime, NoTime>>}

VARIABLES
    appointments,   \* the appointments table: id -> row
    exch,           \* per caller: its current exchange (request, storage calls,
                    \* response) and where the handler stands
    booking,        \* per caller: the conflict check its booking rests on
    today,          \* CURRENT_DATE of the storage session
    remindersTbl,   \* the reminders table
    clientsTbl,     \* the clients table
    policiesTbl,    \* the client_policies table
    remx,           \* the current getAllReminders exchange
    timeString,     \* the value handed to validateAndFormatPostgreSQLTime
    normalized,     \* what the call did with it
    rx,             \* the current exchange of a reminder endpoint other than
                    \* getAllReminders
    pool,           \* the number of storage clients checked out of the pool
    viewRows,       \* the rows storage returned to a view request
    views,          \* the week view and the calendar view built from them
    routed,         \* a request to the reminder router and the handler it reached
    mapper,         \* a storage row handed to convertToAppointment and the result
    birthdays,      \* a call of sp_get_today_birthdays and its rows
    store,          \* the Status of each stored reminder, "none" without a row
    lx              \* per caller: its exchange with the reminder lifecycle endpoints

apptVars == <<appointments, exch, booking>>
remVars == <<today, remindersTbl, clientsTbl, policiesTbl, remx>>
timeVars == <<timeString, normalized>>
endpointVars == <<rx, pool>>
viewVars == <<viewRows, views>>
pureVars == <<routed, mapper, birthdays>>
lifeVars == <<store, lx>>
vars == <<appointments, exch, booking, today, remindersTbl, clientsTbl,
          policiesTbl, remx, timeString, normalized, rx, pool, viewRows, views,
          routed, mapper, birthdays, store, lx>>

(***************************************************************************)
(* JavaScript truthiness of the values the response fields take.           *)
(***************************************************************************)
Truthy(v) == v \notin {"false", "undefined", "null", ""}

RECURSIVE IdSeq(_)
IdSeq(S) ==
    IF S = {} THEN <<>>
    ELSE LET m == CHOOSE x \in S : \A y \in S : x <= y
         IN  <<m>> \o IdSeq(S \ {m})

(***************************************************************************)
(* The storage boundary.  The stored procedures are not part of the        *)
(* application sources; they are modelled from the specification's         *)
(* description of the boundary.                                            *)
(***************************************************************************)
Overlaps(s1, e1, s2, e2) == s1 < e2 /\ s2 < e1

ConflictRow(tbl, i) ==
    [has_conflicts |-> TRUE, appointment_id |-> i, agent_id |-> tbl[i].agent,
     appointment_date |-> tbl[i].date, start_time |-> tbl[i].start,
     end_time |-> tbl[i].end]

NoConflictRow ==
    [has_conflicts |-> FALSE, appointment_id |-> NoId, agent_id |-> "",
     appointment_date |-> NoDate, start_time |-> NoTime, end_time |-> NoTime]

sp_check_appointment_conflicts(tbl, agent, date, s, e, exclude) ==
    LET ids == {i \in DOMAIN tbl :
                   /\ tbl[i].agent = agent
                   /\ tbl[i].date = date
                   /\ tbl[i].active
                   /\ i # exclude
                   /\ Overlaps(tbl[i].start, tbl[i].end, s, e)}
        seq == IdSeq(ids)
    IN  IF ids = {} THEN <<NoConflictRow>>
        ELSE [k \in 1..Len(seq) |-> ConflictRow(tbl, seq[k])]

FreshId(tbl) == CHOOSE i \in AppointmentIds \ DOMAIN tbl :
                    \A j \in AppointmentIds \ DOMAIN tbl : i <= j

sp_create_appointment(tbl, agent, date, s, e) ==
    LET id == FreshId(tbl)
    IN  [table |-> tbl @@ (id :> [agent |-> agent, date |-> date, start |-> s,
                                  end |-> e, active |-> TRUE]),
         row |-> [success |-> 1, message |-> "Appointment created successfully",
                  appointment_id |-> id]]

sp_update_appointment(tbl, id, agent, date, s, e) ==
    IF id \in DOMAIN tbl /\ tbl[id].agent = agent /\ tbl[id].active
    THEN [table |-> [tbl EXCEPT ![id].date = IF date = NoDate THEN @ ELSE date,
                                ![id].start = IF s = NoTime THEN @ ELSE s,
                                ![id].end = IF e = NoTime THEN @ ELSE e],
          row |-> [success |-> 1, message |-> "Appointment updated successfully"]]
    ELSE [table |-> tbl,
          row |-> [success |-> 0, message |-> "Appointment not found"]]

sp_delete_appointment(tbl, id, agent) ==
    IF id \in DOMAIN tbl /\ tbl[id].agent = agent /\ tbl[id].active
    THEN [table |-> [tbl EXCEPT ![id].active = FALSE],
          row |-> [success |-> 1, message |-> "Appointment deleted successfully"]]
    ELSE [table |-> tbl,
          row |-> [success |-> 0, message |-> "Appointment not found"]]

(***************************************************************************)
(* What a storage call can do besides returning rows: raise an error with  *)
(* a constraint code, or another error.                                    *)
(***************************************************************************)
StorageErrors == {"23505", "23503", "23514", "other"}
StorageOutcomes == {"ok"} \cup StorageErrors

\* error.message of a storage error: the text the database wrote
ErrorText(code) ==
    CASE code = "23505" -> "duplicate key value violates unique constraint"
      [] code = "23503" -> "insert or update violates foreign key constraint"
      [] code = "23514" -> "new row violates check constraint"
      [] OTHER -> "connection terminated unexpectedly"

Call(proc, args) == [proc |-> proc, args |-> args]

(***************************************************************************)
(* AppointmentsService                                                     *)
(***************************************************************************)
convertToAppointment(row) ==
    [appointmentId |-> row.appointment_id, agentId |-> row.agent_id,
     appointmentDate |-> row.appointment_date, startTime |-> row.start_time,
     endTime |-> row.end_time]

\* the parameter list of the conflict query: `excludeAppointmentId || null`
checkConflictsValuesNoExclude(agentId, conflictData) ==
    <<agentId, conflictData.appointmentDate, conflictData.startTime,
      conflictData.endTime, NoId>>

checkConflictsValues(agentId, conflictData) ==
    <<agentId, conflictData.appointmentDate, conflictData.startTime,
      conflictData.endTime,
      IF conflictData.excludeAppointmentId # NoId
      THEN conflictData.excludeAppointmentId ELSE NoId>>

\* `row.has_conflicts || row.hasConflicts || false` of the first row
hasConflictsAnyRow(rows) == Len(rows) > 0

hasConflictsOf(rows) == rows[1].has_conflicts

conflictingAppointmentsOf(rows) ==
    IF hasConflictsOf(rows) /\ Len(rows) > 0
    THEN SelectSeq([k \in 1..Len(rows) |-> convertToAppointment(rows[k])],
                   LAMBDA a : a.appointmentId # NoId)
    ELSE <<>>

NoCheckResponse == [hasConflicts |-> FALSE, conflictingAppointments |-> <<>>,
                    message |-> "", detail |-> ""]

AppointmentsService_checkAppointmentConflicts(tbl, agentId, conflictData, outcome) ==
    LET values == checkConflictsValues(agentId, conflictData)
        calls == <<Call("sp_check_appointment_conflicts", values)>>
    IN  IF outcome # "ok"
        THEN [threw |-> TRUE, calls |-> calls,
              value |-> [NoCheckResponse EXCEPT !.message = "Failed to check conflicts: ",
                                               !.detail = ErrorText(outcome)]]
        ELSE LET rows == sp_check_appointment_conflicts(
                             tbl, values[1], values[2], values[3], values[4], values[5])
             IN  [threw |-> FALSE, calls |-> calls,
                  value |-> [hasConflicts |-> hasConflictsOf(rows),
                             conflictingAppointments |-> conflictingAppointmentsOf(rows),
                             message |-> IF hasConflictsOf(rows)
                                         THEN "Time conflicts found"
                                         ELSE "No conflicts",
                             detail |-> ""]]

\* the AppointmentResponse built from the first result row
createResponse(row) ==
    [Success |-> IF row.success = 1 THEN "true" ELSE "undefined",
     Message |-> row.message,
     Detail |-> "",
     AppointmentId |-> row.appointment_id]

\* the catch block of createAppointment; Detail is the error.message that
\* `Failed to create appointment: ${error.message}` appends to the Message
createErrorResponse(code) ==
    [Success |-> "false",
     Message |-> CASE code = "23505" -> "Appointment conflict detected - time slot already booked"
                   [] code = "23503" -> "Invalid client or agent ID provided"
                   [] code = "23514" -> "Invalid appointment data format"
                   [] OTHER -> "Failed to create appointment: ",
     Detail |-> IF code \in {"23505", "23503", "23514"} THEN "" ELSE ErrorText(code),
     AppointmentId |-> NoId]

DeclinedRow == [success |-> 0, message |-> "declined", appointment_id |-> NoId]

\* the service up to the point where the result row has been turned into a
\* response: the storage write and what it returned
AppointmentsService_createAppointment(tbl, agentId, data, outcome) ==
    LET calls == <<Call("sp_create_appointment",
                        <<agentId, data.appointmentDate, data.startTime, data.endTime>>)>>
    IN  CASE outcome = "ok" ->
               LET r == sp_create_appointment(tbl, agentId, data.appointmentDate,
                                              data.startTime, data.endTime)
               IN  [table |-> r.table, calls |-> calls, value |-> createResponse(r.row)]
          [] outcome = "declined" ->
               [table |-> tbl, calls |-> calls, value |-> createResponse(DeclinedRow)]
          [] OTHER ->
               [table |-> tbl, calls |-> calls, value |-> createErrorResponse(outcome)]

updateResponse(row) ==
    [Success |-> IF row.success = 1 THEN "true" ELSE "undefined",
     Message |-> row.message, Detail |-> ""]

AppointmentsService_updateAppointment(tbl, agentId, appointmentId, data, outcome) ==
    LET calls == <<Call("sp_update_appointment",
                        <<appointmentId, agentId, data.appointmentDate,
                          data.startTime, data.endTime>>)>>
    IN  IF outcome # "ok"
        THEN [threw |-> TRUE, table |-> tbl, calls |-> calls,
              value |-> [Success |-> "false", Message |-> "Failed to update appointment: ",
                         Detail |-> ErrorText(outcome)]]
        ELSE LET r == sp_update_appointment(tbl, appointmentId, agentId,
                                            data.appointmentDate, data.startTime,
                                            data.endTime)
             IN  [threw |-> FALSE, table |-> r.table, calls |-> calls,
                  value |-> updateResponse(r.row)]

AppointmentsService_deleteAppointment(tbl, agentId, appointmentId, outcome) ==
    LET calls == <<Call("sp_delete_appointment", <<appointmentId, agentId>>)>>
    IN  IF outcome # "ok"
        THEN [threw |-> TRUE, table |-> tbl, calls |-> calls,
              value |-> [Success |-> "false", Message |-> "Failed to delete appointment: ",
                         Detail |-> ErrorText(outcome)]]
        ELSE LET r == sp_delete_appointment(tbl, appointmentId, agentId)
             IN  [threw |-> FALSE, table |-> r.table, calls |-> calls,
                  value |-> updateResponse(r.row)]

(***************************************************************************)
(* An exchange: the request a caller sent, the storage calls its handler   *)
(* issued and the response.  pc is "idle" (no request), "notify" (the      *)
(* handler is suspended before the confirmation mail) or "done" (the       *)
(* response is with the caller).                                           *)
(***************************************************************************)
NoExchange ==
    [pc |-> "idle", op |-> "none", agent |-> "", id |-> NoId, date |-> NoDate,
     start |-> NoTime, end |-> NoTime, exclude |-> NoId, calls |-> <<>>,
     status |-> 0, Success |-> "undefined", hasConflicts |-> FALSE,
     conflicting |-> <<>>, created |-> NoId, message |-> "", detail |-> "",
     outcome |-> "none", notified |-> "none"]

NoBooking == [stage |-> "none", agent |-> "", date |-> NoDate, start |-> NoTime,
              end |-> NoTime]

Idle(c) == exch[c].pc = "idle"

(***************************************************************************)
(* Controllers (controllers/appointments.ts).  A handler whose only await  *)
(* is one storage call is one step; createAppointment is suspended between *)
(* its write and the confirmation mail, and answers after the second step. *)
(***************************************************************************)
Request(op, agentId, id, body) ==
    [NoExchange EXCEPT !.pc = "done", !.op = op, !.agent = agentId, !.id = id,
                       !.date = body.appointmentDate, !.start = body.startTime,
                       !.end = body.endTime,
                       !.exclude = body.excludeAppointmentId]

createStatusAlwaysCreated(result) == 201

createStatus(result) == IF Truthy(result.Success) THEN 201 ELSE 400

createAppointment(c, agentId, body, outcome) ==
    LET req == Request("create", agentId, NoId, body)
    IN  IF \/ ~Truthy(body.clientId) \/ ~Truthy(body.title)
           \/ body.appointmentDate = NoDate \/ body.startTime = NoTime
           \/ body.endTime = NoTime \/ ~Truthy(body.type)
        THEN /\ exch' = [exch EXCEPT ![c] =
                            [req EXCEPT !.status = 400, !.Success = "false",
                                        !.message = "Missing required fields"]]
             /\ UNCHANGED appointments
        ELSE /\ outcome = "ok" => AppointmentIds \ DOMAIN appointments # {}
             /\ LET r == AppointmentsService_createAppointment(
                             appointments, agentId, body, outcome)
                    done == [req EXCEPT !.calls = r.calls,
                                        !.Success = r.value.Success,
                                        !.message = r.value.Message,
                                        !.detail = r.value.Detail,
                                        !.outcome = outcome,
                                        !.created = r.value.AppointmentId,
                                        !.status = createStatus(r.value)]
                IN  /\ appointments' = r.table
                    /\ exch' = [exch EXCEPT ![c] =
                          IF Truthy(r.value.Success) /\ r.value.AppointmentId # NoId
                          THEN [done EXCEPT !.pc = "notify"]
                          ELSE done]

\* the confirmation mail: getAppointmentById, then sendMail; whatever fails is
\* caught and logged, and the response built before it is returned
Notifications == {"sent", "no_email", "fetch_failed", "mail_failed"}

createAppointment_notifyUncaught(c, n) ==
    /\ exch[c].pc = "notify"
    /\ exch' = [exch EXCEPT ![c] =
                   [@ EXCEPT !.pc = "done", !.notified = n,
                             !.Success = IF n \in {"fetch_failed", "mail_failed"}
                                         THEN "false" ELSE @,
                             !.status = IF n \in {"fetch_failed", "mail_failed"}
                                        THEN 500 ELSE @,
                             !.calls = @ \o <<Call("sp_get_appointment_by_id",
                                                   <<exch[c].created, exch[c].agent>>)>>]]
    /\ UNCHANGED appointments

createAppointment_notify(c, n) ==
    /\ exch[c].pc = "notify"
    /\ exch' = [exch EXCEPT ![c] =
                   [@ EXCEPT !.pc = "done", !.notified = n,
                             !.calls = @ \o <<Call("sp_get_appointment_by_id",
                                                   <<exch[c].created, exch[c].agent>>)>>]]
    /\ UNCHANGED appointments

updateAppointment(c, agentId, appointmentId, body, outcome) ==
    LET r == AppointmentsService_updateAppointment(
                 appointments, agentId, appointmentId, body, outcome)
    IN  /\ appointments' = r.table
        /\ exch' = [exch EXCEPT ![c] =
                       [Request("update", agentId, appointmentId, body) EXCEPT
                           !.calls = r.calls, !.Success = r.value.Success,
                           !.message = r.value.Message,
                           !.detail = r.value.Detail, !.outcome = outcome,
                           !.status = IF r.threw THEN 500 ELSE 200]]

NoBody == [appointmentDate |-> NoDate, startTime |-> NoTime, endTime |-> NoTime,
           excludeAppointmentId |-> NoId]

deleteAppointment(c, agentId, appointmentId, outcome) ==
    LET r == AppointmentsService_deleteAppointment(
                 appointments, agentId, appointmentId, outcome)
    IN  /\ appointments' = r.table
        /\ exch' = [exch EXCEPT ![c] =
                       [Request("delete", agentId, appointmentId, NoBody) EXCEPT
                           !.calls = r.calls, !.Success = r.value.Success,
                           !.message = r.value.Message,
                           !.detail = r.value.Detail, !.outcome = outcome,
                           !.status = IF r.threw THEN 500 ELSE 200]]

checkAppointmentConflicts(c, agentId, body, outcome) ==
    LET req == Request("check", agentId, NoId, body)
    IN  /\ IF \/ body.appointmentDate = NoDate \/ body.startTime = NoTime
              \/ body.endTime = NoTime
           THEN exch' = [exch EXCEPT ![c] =
                            [req EXCEPT !.status = 400,
                                 !.message = "appointmentDate, startTime, and endTime are required"]]
           ELSE LET r == AppointmentsService_checkAppointmentConflicts(
                             appointments, agentId, body, outcome)
                IN  exch' = [exch EXCEPT ![c] =
                                [req EXCEPT
                                    !.calls = r.calls,
                                    !.hasConflicts = r.value.hasConflicts,
                                    !.conflicting = r.value.conflictingAppointments,
                                    !.message = r.value.message,
                                    !.detail = r.value.detail,
                                    !.outcome = outcome,
                                    !.status = IF r.threw THEN 500 ELSE 200]]
        /\ UNCHANGED appointments

(***************************************************************************)
(* Request bodies.                                                         *)
(***************************************************************************)
RequiredFields == {<<"client1", "Policy review", "Meeting">>,
                   <<"", "Policy review", "Meeting">>,
                   <<"client1", "", "Meeting">>,
                   <<"client1", "Policy review", "">>}

CreateBodies ==
    {[clientId |-> f[1], title |-> f[2], type |-> f[3], appointmentDate |-> d,
      startTime |-> w[1], endTime |-> w[2], excludeAppointmentId |-> NoId] :
        f \in RequiredFields, d \in Dates \cup {NoDate}, w \in ReqWindows}

UpdateBodies ==
    {[appointmentDate |-> d, startTime |-> w[1], endTime |-> w[2],
      excludeAppointmentId |-> NoId] :
        d \in Dates \cup {NoDate}, w \in ReqWindows}

CheckBodies ==
    {[appointmentDate |-> d, startTime |-> w[1], endTime |-> w[2],
      excludeAppointmentId |-> x] :
        d \in Dates \cup {NoDate}, w \in ReqWindows,
        x \in AppointmentIds \cup {NoId}}

(***************************************************************************)
(* JavaScript numbers and strings.  A string that is parsed is a sequence  *)
(* of one-character strings; a number is a record that says whether it is  *)
(* NaN.                                                                    *)
(***************************************************************************)
NaN == [nan |-> TRUE, n |-> 0]
Num(k) == [nan |-> FALSE, n |-> k]

DigitChars == <<"0", "1", "2", "3", "4", "5", "6", "7", "8", "9">>
IsDigit(ch) == \E i \in 1..Len(DigitChars) : DigitChars[i] = ch
DigitVal(ch) == (CHOOSE i \in 1..Len(DigitChars) : DigitChars[i] = ch) - 1

RECURSIVE DecValue(_)
DecValue(ds) ==
    IF ds = <<>> THEN 0
    ELSE 10 * DecValue(SubSeq(ds, 1, Len(ds) - 1)) + DigitVal(ds[Len(ds)])

RECURSIVE DigitsPrefix(_)
DigitsPrefix(str) ==
    IF str # <<>> /\ IsDigit(Head(str))
    THEN <<Head(str)>> \o DigitsPrefix(Tail(str))
    ELSE <<>>

RECURSIVE TrimLeft(_)
TrimLeft(str) ==
    IF str # <<>> /\ Head(str) = " " THEN TrimLeft(Tail(str)) ELSE str

RECURSIVE TrimRight(_)
TrimRight(str) ==
    IF str # <<>> /\ str[Len(str)] = " "
    THEN TrimRight(SubSeq(str, 1, Len(str) - 1))
    ELSE str

\* parseInt(string): leading blanks, a sign, then the longest run of digits
ParseInt(str) ==
    LET t == TrimLeft(str)
        signed == t # <<>> /\ Head(t) \in {"-", "+"}
        ds == DigitsPrefix(IF signed THEN Tail(t) ELSE t)
    IN  IF ds = <<>> THEN NaN
        ELSE Num(IF signed /\ Head(t) = "-" THEN 0 - DecValue(ds) ELSE DecValue(ds))

\* a count as the driver hands it over: a bigint arrives as a decimal string
RECURSIVE ToChars(_)
ToChars(k) ==
    IF k < 10 THEN <<DigitChars[k + 1]>>
    ELSE ToChars(k \div 10) \o <<DigitChars[(k % 10) + 1]>>

\* Math.ceil(a / b) for integers a and b # 0
Ceil(a, b) ==
    IF b > 0 THEN 0 - ((0 - a) \div b) ELSE 0 - (a \div (0 - b))

(***************************************************************************)
(* The calendar of the count query's date arithmetic.                      *)
(***************************************************************************)
Date(y, m, d) == [y |-> y, m |-> m, d |-> d]
NoDob == Date(0, 0, 0)

IsLeap(y) == (y % 400 = 0) \/ (y % 4 = 0 /\ y % 100 # 0)

DaysInMonth(y, m) ==
    CASE m = 2 -> IF IsLeap(y) THEN 29 ELSE 28
      [] m \in {4, 6, 9, 11} -> 30
      [] OTHER -> 31

RECURSIVE DaysBeforeMonth(_, _)
DaysBeforeMonth(y, m) ==
    IF m = 1 THEN 0 ELSE DaysBeforeMonth(y, m - 1) + DaysInMonth(y, m - 1)

Epoch == Date(2023, 1, 1)

RECURSIVE DaysBeforeYear(_)
DaysBeforeYear(y) ==
    IF y <= Epoch.y THEN 0
    ELSE DaysBeforeYear(y - 1) + (IF IsLeap(y - 1) THEN 366 ELSE 365)

\* the number of a day, counted from the day Epoch
DayNumber(dt) == DaysBeforeYear(dt.y) + DaysBeforeMonth(dt.y, dt.m) + dt.d

\* x BETWEEN CURRENT_DATE AND CURRENT_DATE + INTERVAL 'n days'
WithinDays(x, now, n) ==
    DayNumber(now) <= DayNumber(x) /\ DayNumber(x) <= DayNumber(now) + n

\* the CASE of the count query: the birthday in the current year, with
\* 29 February moved to 28 February when the current year is not a leap year
BirthdayThisYear(dob, now) ==
    IF dob.m = 2 /\ dob.d = 29 /\ ~IsLeap(now.y)
    THEN Date(now.y, 2, 28)
    ELSE Date(now.y, dob.m, dob.d)

(***************************************************************************)
(* The count query of getAllReminders (the SQL is part of the service).    *)
(***************************************************************************)
NativeCount(agentId) ==
    Cardinality({r \in remindersTbl : r.agent_id = agentId})

PolicyExpiryCount(agentId) ==
    Cardinality({cp \in policiesTbl :
        /\ \E cl \in clientsTbl : cl.client_id = cp.client_id /\ cl.agent_id = agentId
        /\ cp.is_active
        /\ WithinDays(cp.end_date, today, 30)})

BirthdayCount(agentId) ==
    Cardinality({cl \in clientsTbl :
        /\ cl.agent_id = agentId
        /\ cl.is_active
        /\ cl.date_of_birth # NoDob
        /\ WithinDays(BirthdayThisYear(cl.date_of_birth, today), today, 7)})

AppointmentCount(agentId) ==
    Cardinality({i \in DOMAIN appointments :
        appointments[i].agent = agentId /\ appointments[i].active})

countQuery(agentId) ==
    NativeCount(agentId) + PolicyExpiryCount(agentId) + BirthdayCount(agentId)
        + AppointmentCount(agentId)

(***************************************************************************)
(* ReminderService.getAllReminders                                         *)
(***************************************************************************)
\* filters.X of a filter object: undefined (falsy) when the key is absent
Prop(filters, k) == IF k \in DOMAIN filters THEN filters[k] ELSE ""

hasFiltersWithDates(filters) ==
    \/ Truthy(Prop(filters, "ReminderType")) \/ Truthy(Prop(filters, "Status"))
    \/ Truthy(Prop(filters, "Priority")) \/ Truthy(Prop(filters, "ClientId"))
    \/ Truthy(Prop(filters, "StartDate"))

hasFiltersOf(filters) ==
    \/ Truthy(Prop(filters, "ReminderType")) \/ Truthy(Prop(filters, "Status"))
    \/ Truthy(Prop(filters, "Priority")) \/ Truthy(Prop(filters, "ClientId"))

\* `filters.PageSize || 20`, `filters.PageNumber || 1`
NumberOr(filters, k, dflt) ==
    IF k \in DOMAIN filters /\ filters[k] # 0 THEN filters[k] ELSE dflt

DefaultPageSize == 20
DefaultPageNumber == 1

\* `parseInt(x) || 0`
ParseIntOrZero(str) == IF ParseInt(str).nan THEN 0 ELSE ParseInt(str).n

totalPagesFloor(totalRecords, pageSize) == totalRecords \div pageSize

totalPagesOf(totalRecords, pageSize) == Ceil(totalRecords, pageSize)

\* the totalRecords of the response: rows are the rows the retrieval call
\* returned, counted the total the count query would return
totalRecordsOf(hasFilters, rows, counted) ==
    IF hasFilters /\ Len(rows) > 0
    THEN ParseIntOrZero(rows[1].total_records)
    ELSE IF ~hasFilters
         THEN ParseIntOrZero(counted)
         ELSE Len(rows)

(***************************************************************************)
(* The storage client of a ReminderService operation:                      *)
(*   const client = await pool.connect();                                  *)
(*   try { ... client.query ... } finally { client.release(); }            *)
(* The events on the pool and on the client, in order, of an operation     *)
(* that obtained a client, issued `calls` and returned or threw.           *)
(***************************************************************************)
ScopedReleaseOnReturn(calls, threw) ==
    <<"connect">> \o [i \in 1..Len(calls) |-> "query"]
        \o (IF threw THEN <<>> ELSE <<"release">>)

Scoped(calls, threw) ==
    <<"connect">> \o [i \in 1..Len(calls) |-> "query"] \o <<"release">>

\* the clients an operation leaves checked out
RECURSIVE CheckedOut(_)
CheckedOut(trace) ==
    IF trace = <<>> THEN 0
    ELSE CheckedOut(Tail(trace))
         + (CASE Head(trace) = "connect" -> 1
              [] Head(trace) = "release" -> -1
              [] OTHER -> 0)

RetrievalOutcomes == {"ok", "query_failed", "count_failed"}

NoPage == [reminders |-> 0, totalRecords |-> 0, currentPage |-> 0,
           totalPages |-> 0, pageSize |-> 0]

\* rows: what the retrieval procedure returns for the call (the procedures
\* are opaque: any page of rows, each carrying the same total on the
\* filtered path)
ReminderService_getAllReminders(agentId, filters, rows, outcome) ==
    LET hasFilters == hasFiltersOf(filters)
        retrieval ==
            IF hasFilters
            THEN Call("sp_get_all_reminders_with_filters",
                      <<agentId, Prop(filters, "ReminderType"), Prop(filters, "Status"),
                        Prop(filters, "Priority"), Prop(filters, "StartDate"),
                        Prop(filters, "EndDate"), Prop(filters, "ClientId"),
                        NumberOr(filters, "PageNumber", DefaultPageNumber),
                        NumberOr(filters, "PageSize", DefaultPageSize)>>)
            ELSE Call("sp_get_all_reminders",
                      <<agentId, Prop(filters, "StartDate"), Prop(filters, "EndDate"),
                        NumberOr(filters, "PageNumber", DefaultPageNumber),
                        NumberOr(filters, "PageSize", DefaultPageSize)>>)
        pageSize == NumberOr(filters, "PageSize", DefaultPageSize)
        currentPage == NumberOr(filters, "PageNumber", DefaultPageNumber)
        counting == <<Call("countQuery", <<agentId>>)>>
    IN  IF outcome = "query_failed"
        THEN [threw |-> TRUE, calls |-> <<retrieval>>,
              trace |-> Scoped(<<retrieval>>, TRUE), value |-> NoPage]
        ELSE IF ~hasFilters /\ outcome = "count_failed"
        THEN [threw |-> TRUE, calls |-> <<retrieval>> \o counting,
              trace |-> Scoped(<<retrieval>> \o counting, TRUE), value |-> NoPage]
        ELSE LET totalRecords ==
                     totalRecordsOf(hasFilters, rows, ToChars(countQuery(agentId)))
             IN  [threw |-> FALSE,
                  calls |-> <<retrieval>> \o (IF hasFilters THEN <<>> ELSE counting),
                  trace |-> Scoped(<<retrieval>> \o (IF hasFilters THEN <<>> ELSE counting),
                                   FALSE),
                  value |-> [reminders |-> Len(rows),
                             totalRecords |-> totalRecords,
                             currentPage |-> currentPage,
                             totalPages |-> totalPagesOf(totalRecords, pageSize),
                             pageSize |-> pageSize]]

(***************************************************************************)
(* RemindersController.getAllReminders                                     *)
(***************************************************************************)
ReminderTypes == {"Call", "Visit", "Policy Expiry", "Maturing Policy", "Birthday",
                  "Holiday", "Custom", "Appointment"}
validateReminderType(type) == IF Truthy(type) /\ type \in ReminderTypes THEN type ELSE ""
validateStatus(status) ==
    IF Truthy(status) /\ status \in {"Active", "Completed", "Cancelled"}
    THEN status ELSE ""
validatePriority(priority) ==
    IF Truthy(priority) /\ priority \in {"High", "Medium", "Low"}
    THEN priority ELSE ""

\* one key of the filter object, dropped when the value is undefined, null,
\* '' or NaN
StringFilter(k, v) == IF v = "" THEN <<>> ELSE (k :> v)
NumberFilter(k, v) == IF v.nan THEN <<>> ELSE (k :> v.n)

\* `parseInt(query.PageSize || query.pageSize || '20')`
QueryInt(raw, dflt) == ParseInt(IF raw = <<>> THEN dflt ELSE raw)

FiltersOf(q) ==
    StringFilter("ReminderType", validateReminderType(q.reminderType))
    @@ StringFilter("Status", validateStatus(q.status))
    @@ StringFilter("Priority", validatePriority(q.priority))
    @@ StringFilter("StartDate", q.startDate)
    @@ StringFilter("EndDate", q.endDate)
    @@ StringFilter("ClientId", q.clientId)
    @@ NumberFilter("PageSize", QueryInt(q.pageSize, <<"2", "0">>))
    @@ NumberFilter("PageNumber", QueryInt(q.pageNumber, <<"1">>))

NoRemExchange ==
    [pc |-> "idle", agent |-> "", filters |-> <<>>, calls |-> <<>>, trace |-> <<>>,
     rows |-> <<>>, status |-> 0, page |-> NoPage]

getAllReminders(agentId, q, rows, outcome) ==
    IF ~Truthy(agentId)
    THEN remx' = [NoRemExchange EXCEPT !.pc = "done", !.status = 400]
    ELSE LET filters == FiltersOf(q)
             r == ReminderService_getAllReminders(agentId, filters, rows, outcome)
         IN  remx' = [pc |-> "done", agent |-> agentId, filters |-> filters,
                      calls |-> r.calls, trace |-> r.trace,
                      rows |-> IF outcome = "query_failed" THEN <<>> ELSE rows,
                      status |-> IF r.threw THEN 500 ELSE 200,
                      page |-> r.value]

QuietReminders ==
    /\ today = Epoch
    /\ remindersTbl = {}
    /\ clientsTbl = {}
    /\ policiesTbl = {}
    /\ remx = NoRemExchange

(***************************************************************************)
(* ReminderService.validateAndFormatPostgreSQLTime                         *)
(*                                                                         *)
(* A value is null, undefined, a number or a string (a sequence of         *)
(* one-character strings).                                                 *)
(***************************************************************************)
Null == [kind |-> "null", chars |-> <<>>, n |-> 0]
Undefined == [kind |-> "undefined", chars |-> <<>>, n |-> 0]
Str(cs) == [kind |-> "string", chars |-> cs, n |-> 0]
Number(k) == [kind |-> "number", chars |-> <<>>, n |-> k]

\* String.prototype.trim over the blanks of the inputs
Trim(str) == TrimRight(TrimLeft(str))

Includes(str, ch) == \E i \in 1..Len(str) : str[i] = ch

\* a regular expression made of \d and literal characters, anchored at both
\* ends: "d" in the shape stands for \d
Shape(str, shape) ==
    /\ Len(str) = Len(shape)
    /\ \A i \in 1..Len(shape) :
           IF shape[i] = "d" THEN IsDigit(str[i]) ELSE str[i] = shape[i]

\* /^\d{2}:\d{2}:\d{2}$/ and /^\d{1,2}:\d{2}$/
IsHHMMSS(str) == Shape(str, <<"d", "d", ":", "d", "d", ":", "d", "d">>)
IsHHMM(str) == Shape(str, <<"d", "d", ":", "d", "d">>) \/ Shape(str, <<"d", ":", "d", "d">>)

\* str.split(':').map(Number) of a string one of the two expressions matched
RECURSIVE SplitColon(_)
SplitColon(str) ==
    IF ~Includes(str, ":") THEN <<DecValue(str)>>
    ELSE LET k == CHOOSE i \in 1..Len(str) :
                      str[i] = ":" /\ \A j \in 1..(i - 1) : str[j] # ":"
         IN  <<DecValue(SubSeq(str, 1, k - 1))>> \o SplitColon(SubSeq(str, k + 1, Len(str)))

\* n.toString().padStart(2, '0')
padStartNone(n) == ToChars(n)

padStart2(n) == IF n < 10 THEN <<"0">> \o ToChars(n) ELSE ToChars(n)

Formatted(h, m, s) == padStart2(h) \o <<":">> \o padStart2(m) \o <<":">> \o padStart2(s)

(***************************************************************************)
(* new Date(string).  The language fixes the result for the ISO forms      *)
(* YYYY-MM-DDTHH:mm:ssZ and YYYY-MM-DD; for every other string the parse   *)
(* is left to the engine (and, without an offset, to the server's time     *)
(* zone), so the result is any of: Invalid Date, or a date with some UTC   *)
(* time of day.                                                            *)
(***************************************************************************)
InvalidDate == [valid |-> FALSE, h |-> 0, m |-> 0, s |-> 0]
UTCTime(h, m, s) == [valid |-> TRUE, h |-> h, m |-> m, s |-> s]

EngineTimes == {UTCTime(0, 0, 0), UTCTime(9, 5, 7), UTCTime(23, 59, 59)}

ValidYMD(str) ==
    LET y == DecValue(SubSeq(str, 1, 4))
        m == DecValue(SubSeq(str, 6, 7))
        d == DecValue(SubSeq(str, 9, 10))
    IN  m \in 1..12 /\ d >= 1 /\ d <= DaysInMonth(y, m)

NewDate(str) ==
    IF Shape(str, <<"d", "d", "d", "d", "-", "d", "d", "-", "d", "d", "T", "d", "d", ":", "d", "d", ":", "d", "d", "Z">>) /\ ValidYMD(str)
           /\ DecValue(SubSeq(str, 12, 13)) <= 23
           /\ DecValue(SubSeq(str, 15, 16)) <= 59
           /\ DecValue(SubSeq(str, 18, 19)) <= 59
    THEN {UTCTime(DecValue(SubSeq(str, 12, 13)), DecValue(SubSeq(str, 15, 16)),
                  DecValue(SubSeq(str, 18, 19)))}
    ELSE IF Shape(str, <<"d", "d", "d", "d", "-", "d", "d", "-", "d", "d">>) /\ ValidYMD(str)
    THEN {UTCTime(0, 0, 0)}
    ELSE {InvalidDate} \cup EngineTimes

DatePrefix == <<"1", "9", "7", "0", "-", "0", "1", "-", "0", "1", "T">>

\* `!timeString || timeString === 'null' || timeString === 'undefined'`
noValidTimeLiteralOnly(t) ==
    t.kind = "string" /\ t.chars \in {<<"n", "u", "l", "l">>, <<"u", "n", "d", "e", "f", "i", "n", "e", "d">>}

noValidTime(t) ==
    \/ t.kind \in {"null", "undefined"}
    \/ t.kind = "string" /\ t.chars = <<>>
    \/ t.kind = "number" /\ t.n = 0
    \/ t.kind = "string" /\ t.chars \in {<<"n", "u", "l", "l">>, <<"u", "n", "d", "e", "f", "i", "n", "e", "d">>}

\* the outcome of a call: what it returned or that it raised, and the parse
\* formats it attempted, in order
Returned(value, tried) == [raised |-> FALSE, isNull |-> FALSE, value |-> value, tried |-> tried]
ReturnedNull(tried) == [raised |-> FALSE, isNull |-> TRUE, value |-> <<>>, tried |-> tried]
Raised == [raised |-> TRUE, isNull |-> FALSE, value |-> <<>>, tried |-> <<>>]

\* timeString.toString()
ToStringOf(t) == IF t.kind = "number" THEN ToChars(t.n) ELSE t.chars

\* d3, d4: what the Date constructions of formats 3 and 4 give
validateAndFormatPostgreSQLTime(t, d3, d4) ==
    IF noValidTime(t) THEN ReturnedNull(<<>>)
    ELSE IF t.kind \in {"null", "undefined"} THEN Raised
    ELSE LET cleanTime == Trim(ToStringOf(t))
             parts == SplitColon(cleanTime)
         IN  IF IsHHMMSS(cleanTime)
             THEN IF parts[1] <= 23 /\ parts[2] <= 59 /\ parts[3] <= 59
                  THEN Returned(cleanTime, <<1>>)
                  ELSE ReturnedNull(<<1>>)
             ELSE IF IsHHMM(cleanTime)
             THEN IF parts[1] <= 23 /\ parts[2] <= 59
                  THEN Returned(padStart2(parts[1]) \o <<":">> \o padStart2(parts[2])
                                    \o <<":", "0", "0">>, <<2>>)
                  ELSE ReturnedNull(<<2>>)
             ELSE LET third == Includes(cleanTime, "T") \/ Includes(cleanTime, "-")
                      tried3 == IF third THEN <<3>> ELSE <<>>
                  IN  IF third /\ d3.valid
                      THEN Returned(Formatted(d3.h, d3.m, d3.s), tried3)
                      ELSE IF d4.valid
                      THEN Returned(Formatted(d4.h, d4.m, d4.s), tried3 \o <<4>>)
                      ELSE ReturnedNull(tried3 \o <<4>>)

NotCalled == [raised |-> FALSE, isNull |-> FALSE, value |-> <<>>, tried |-> <<0>>]

QuietTime ==
    /\ timeString = Null
    /\ normalized = NotCalled

\* the outcome of a service operation: whether it threw, the storage calls
\* it issued, the client events and what it returned
ServiceResult(threw, calls, value) ==
    [threw |-> threw, calls |-> calls, trace |-> Scoped(calls, threw),
     value |-> value]

\* pool.connect() rejected: no client, no query
NoClient == [threw |-> TRUE, calls |-> <<>>, trace |-> <<>>, value |-> 0]

\* `x || dflt` for a string field, absent as ""
Or(x, dflt) == IF x = "" THEN dflt ELSE x

\* `x || dflt` for a boolean field held as "true", "false" or "undefined"
OrBool(x, dflt) == IF Truthy(x) THEN x ELSE dflt

\* JavaScript truthiness of a null, undefined, number or string value
TruthyValue(t) ==
    ~ \/ t.kind \in {"null", "undefined"}
      \/ t.kind = "string" /\ t.chars = <<>>
      \/ t.kind = "number" /\ t.n = 0

\* the time parameter of a write:
\*   let validatedTime = null;
\*   if (data.ReminderTime) validatedTime = this.validateAndFormatPostgreSQLTime(...)
validatedTimeOrRaise(t, d3, d4) ==
    IF ~TruthyValue(t) THEN ReturnedNull(<<>>)
    ELSE LET r == validateAndFormatPostgreSQLTime(t, d3, d4)
         IN  IF r.isNull THEN Raised ELSE r

validatedTime(t, d3, d4) ==
    IF ~TruthyValue(t) THEN ReturnedNull(<<>>)
    ELSE validateAndFormatPostgreSQLTime(t, d3, d4)

\* a normalised time as a query parameter
TimeParam(r) == IF r.isNull THEN Null ELSE Str(r.value)

(***************************************************************************)
(* ReminderService: the operations behind the reminder endpoints.  outcome *)
(* is what storage does: "ok", "no_rows" (the procedure reports no row     *)
(* affected, or the query returns no row), "query_failed", "no_client"     *)
(* (pool.connect rejects), and for the operations with a second query      *)
(* "second_failed".                                                        *)
(***************************************************************************)
ReminderService_createReminder(agentId, data, d3, d4, outcome) ==
    LET t == validatedTime(data.ReminderTime, d3, d4)
        values == [agentId |-> agentId,
                   ReminderType |-> data.ReminderType,
                   Title |-> data.Title,
                   ReminderDate |-> data.ReminderDate,
                   ReminderTime |-> TimeParam(t),
                   Priority |-> Or(data.Priority, "Medium"),
                   EnableSMS |-> OrBool(data.EnableSMS, "false"),
                   EnablePushNotification |-> OrBool(data.EnablePushNotification, "true"),
                   Notes |-> Or(data.Notes, "")]
    IN  IF t.raised \/ outcome = "no_client" THEN NoClient
        ELSE ServiceResult(outcome # "ok", <<Call("sp_create_reminder", values)>>,
                           IF outcome = "ok" THEN 1 ELSE 0)

\* returns RowsAffected
ReminderService_updateReminder(reminderId, agentId, data, d3, d4, outcome) ==
    LET t == validatedTime(data.ReminderTime, d3, d4)
        values == [reminderId |-> reminderId,
                   agentId |-> agentId,
                   Title |-> Or(data.Title, ""),
                   ReminderDate |-> Or(data.ReminderDate, ""),
                   ReminderTime |-> TimeParam(t),
                   Priority |-> Or(data.Priority, ""),
                   Status |-> Or(data.Status, ""),
                   EnableSMS |-> OrBool(data.EnableSMS, "null"),
                   EnablePushNotification |-> OrBool(data.EnablePushNotification, "null"),
                   Notes |-> Or(data.Notes, "")]
    IN  IF outcome = "no_client" THEN NoClient
        ELSE IF t.raised THEN ServiceResult(TRUE, <<>>, 0)
        ELSE ServiceResult(outcome \notin {"ok", "no_rows"},
                           <<Call("sp_update_reminder", values)>>,
                           IF outcome = "ok" THEN 1 ELSE 0)

\* the operations that run one query on their client and map its rows:
\* getReminderById, deleteReminder, completeReminder, getReminderSettings,
\* updateReminderSettings, getReminderStatistics, getRemindersByType,
\* getRemindersByStatus, getBirthdayReminders, getPolicyExpiryReminders and
\* validatePhoneNumber.  The value is the number of rows (affected).
ReminderService_oneQuery(proc, args, outcome) ==
    IF outcome = "no_client" THEN NoClient
    ELSE ServiceResult(outcome \notin {"ok", "no_rows"}, <<Call(proc, args)>>,
                       IF outcome = "ok" THEN 1 ELSE 0)

\* sp_get_today_reminders_v2 and, when it fails, the direct query on the
\* same client
ReminderService_getTodayReminders(agentId, outcome) ==
    LET v2 == Call("sp_get_today_reminders_v2", <<agentId>>)
        direct == Call("sp_get_today_reminders_direct", <<agentId>>)
    IN  CASE outcome = "no_client" -> NoClient
          [] outcome \in {"ok", "no_rows"} -> ServiceResult(FALSE, <<v2>>, 1)
          [] outcome = "query_failed" -> ServiceResult(FALSE, <<v2, direct>>, 1)
          [] OTHER -> ServiceResult(TRUE, <<v2, direct>>, 0)

(***************************************************************************)
(* RemindersController: the handlers of the reminder endpoints other than  *)
(* getAllReminders.  A request carries the agent id of the URL path and    *)
(* the x-agent-id header (each "" when absent), the reminder id of the     *)
(* path, the type or status segment, the daysAhead query parameter and a   *)
(* body.                                                                   *)
(***************************************************************************)
NoReminderBody ==
    [Title |-> "", ReminderType |-> "", ReminderDate |-> "", ReminderTime |-> Undefined,
     Priority |-> "", EnableSMS |-> "undefined", EnablePushNotification |-> "undefined",
     Notes |-> "", phoneNumber |-> "", IsEnabled |-> "undefined", Status |-> ""]

NoRequest ==
    [path |-> "", header |-> "", reminderId |-> "", segment |-> "",
     daysAhead |-> <<>>, body |-> NoReminderBody]

NoEndpoint ==
    [pc |-> "idle", op |-> "none", req |-> NoRequest, d3 |-> InvalidDate,
     d4 |-> InvalidDate, outcomes |-> <<>>, agent |-> "", calls |-> <<>>,
     trace |-> <<>>, status |-> 0]

\* `req.params.agentId || req.headers['x-agent-id']`
agentIdOf(req) == Or(req.path, req.header)

\* res.status(status) before any service call
Rejected(status) == [agent |-> "", calls |-> <<>>, trace |-> <<>>, status |-> status]

\* the response after the service call r: 500 from the catch block
Responded(agentId, r, status) ==
    [agent |-> agentId, calls |-> r.calls, trace |-> r.trace,
     status |-> IF r.threw THEN 500 ELSE status]

\* POST / : the agent id is read from the header only
createReminder(req, d3, d4, outcome) ==
    IF ~Truthy(req.header) THEN Rejected(400)
    ELSE IF \/ ~Truthy(req.body.Title) \/ ~Truthy(req.body.ReminderType)
            \/ ~Truthy(req.body.ReminderDate)
    THEN Rejected(400)
    ELSE Responded(req.header,
                   ReminderService_createReminder(req.header, req.body, d3, d4, outcome),
                   201)

getReminderById(req, outcome) ==
    IF ~Truthy(agentIdOf(req)) \/ ~Truthy(req.reminderId) THEN Rejected(400)
    ELSE Responded(agentIdOf(req),
                   ReminderService_oneQuery("sp_get_reminder_by_id",
                                            <<req.reminderId, agentIdOf(req)>>, outcome),
                   IF outcome = "no_rows" THEN 404 ELSE 200)

\* the first half of updateReminder: up to the answer of the update call
updateReminder(req, d3, d4, outcome) ==
    IF ~Truthy(agentIdOf(req)) THEN Rejected(400)
    ELSE IF ~Truthy(req.reminderId) THEN Rejected(400)
    ELSE LET r == ReminderService_updateReminder(req.reminderId, agentIdOf(req),
                                                 req.body, d3, d4, outcome)
         IN  Responded(agentIdOf(req), r, IF r.value = 0 THEN 404 ELSE 200)

\* the second half: getReminderById, whose result (the reminder or null) is
\* the body of the 200 response
updateReminder_refetch(x, outcome) ==
    LET r == ReminderService_oneQuery("sp_get_reminder_by_id",
                                      <<x.req.reminderId, x.agent>>, outcome)
    IN  [agent |-> x.agent, calls |-> x.calls \o r.calls, trace |-> x.trace \o r.trace,
         status |-> IF r.threw THEN 500 ELSE 200,
         body |-> IF r.threw THEN "error" ELSE IF r.value = 0 THEN "null" ELSE "reminder"]

\* deleteReminder and completeReminder
byIdHandler(proc, req, outcome) ==
    IF ~Truthy(agentIdOf(req)) THEN Rejected(400)
    ELSE IF ~Truthy(req.reminderId) THEN Rejected(400)
    ELSE Responded(agentIdOf(req),
                   ReminderService_oneQuery(proc, <<req.reminderId, agentIdOf(req)>>,
                                            outcome),
                   IF outcome = "no_rows" THEN 404 ELSE 200)

getTodayReminders(req, outcome) ==
    IF ~Truthy(agentIdOf(req)) THEN Rejected(400)
    ELSE Responded(agentIdOf(req),
                   ReminderService_getTodayReminders(agentIdOf(req), outcome), 200)

\* getReminderSettings, getReminderStatistics and getBirthdayReminders
agentHandler(proc, req, outcome) ==
    IF ~Truthy(agentIdOf(req)) THEN Rejected(400)
    ELSE Responded(agentIdOf(req),
                   ReminderService_oneQuery(proc, <<agentIdOf(req)>>, outcome), 200)

updateReminderSettings(req, outcome) ==
    IF ~Truthy(agentIdOf(req)) THEN Rejected(400)
    ELSE IF ~Truthy(req.body.ReminderType) \/ req.body.IsEnabled \notin {"true", "false"}
    THEN Rejected(400)
    ELSE Responded(agentIdOf(req),
                   ReminderService_oneQuery("sp_update_reminder_settings",
                       <<agentIdOf(req), req.body.ReminderType, req.body.IsEnabled>>,
                       outcome),
                   200)

\* getRemindersByType and getRemindersByStatus: validated is the value of
\* validateReminderType or validateStatus for the path segment
segmentHandler(proc, validated, req, outcome) ==
    IF ~Truthy(agentIdOf(req)) THEN Rejected(400)
    ELSE IF ~Truthy(req.segment) THEN Rejected(400)
    ELSE IF ~Truthy(validated) THEN Rejected(400)
    ELSE Responded(agentIdOf(req),
                   ReminderService_oneQuery(proc, <<agentIdOf(req), validated>>, outcome),
                   200)

\* `req.query.daysAhead ? parseInt(req.query.daysAhead) : 30`
DefaultDaysAhead == 30
MinDaysAhead == 1
MaxDaysAhead == 365

daysAheadOf(raw) == IF raw = <<>> THEN Num(DefaultDaysAhead) ELSE ParseInt(raw)

getPolicyExpiryReminders(req, outcome) ==
    LET daysAhead == daysAheadOf(req.daysAhead)
    IN  IF ~Truthy(agentIdOf(req)) THEN Rejected(400)
        ELSE IF daysAhead.nan \/ daysAhead.n < MinDaysAhead \/ daysAhead.n > MaxDaysAhead
        THEN Rejected(400)
        ELSE Responded(agentIdOf(req),
                       ReminderService_oneQuery("sp_get_policy_expiry_reminders",
                                                <<agentIdOf(req), daysAhead.n>>, outcome),
                       200)

\* POST /validate-phone: no agent id is read
validatePhoneNumber(req, outcome) ==
    IF ~Truthy(req.body.phoneNumber) THEN Rejected(400)
    ELSE Responded("",
                   ReminderService_oneQuery("sp_validate_phone_number",
                                            <<req.body.phoneNumber, "+254">>, outcome),
                   200)

QuietEndpoints ==
    /\ rx = NoEndpoint
    /\ pool = 0

(***************************************************************************)
(* AppointmentsService.getWeekViewAppointments and                         *)
(* getCalendarViewAppointments: the grouping of the rows storage returned. *)
(* The groups are the properties of an object keyed by the row's date, and *)
(* Object.values lists them in the order the keys were added (a date is    *)
(* never an integer-like key).  A row that carries no appointment has a    *)
(* null appointment_id.                                                    *)
(***************************************************************************)
\* the position of the entry of `date`, 0 when `!data[date]`
EntryOf(data, date) ==
    IF \E i \in 1..Len(data) : data[i].date = date
    THEN CHOOSE i \in 1..Len(data) : data[i].date = date
    ELSE 0

\* a week view that opens an entry only for a row with an appointment
weekRowSkipEmpty(weekData, row) ==
    LET date == row.appointment_date
        opened == IF EntryOf(weekData, date) = 0
                  THEN Append(weekData, [date |-> date, dayName |-> row.day_name,
                                         appointments |-> <<>>])
                  ELSE weekData
    IN  IF row.appointment_id # NoId
        THEN [opened EXCEPT ![EntryOf(opened, date)].appointments =
                                Append(@, convertToAppointment(row))]
        ELSE weekData

\* the body of result.rows.forEach in the week view
weekRow(weekData, row) ==
    LET date == row.appointment_date
        opened == IF EntryOf(weekData, date) = 0
                  THEN Append(weekData, [date |-> date, dayName |-> row.day_name,
                                         appointments |-> <<>>])
                  ELSE weekData
    IN  IF row.appointment_id # NoId
        THEN [opened EXCEPT ![EntryOf(opened, date)].appointments =
                                Append(@, convertToAppointment(row))]
        ELSE opened

RECURSIVE getWeekViewAppointments(_)
getWeekViewAppointments(rows) ==
    IF rows = <<>> THEN <<>>
    ELSE weekRow(getWeekViewAppointments(SubSeq(rows, 1, Len(rows) - 1)), rows[Len(rows)])

\* a calendar view that lists the appointment without counting it
calendarRowUncounted(calendarData, row) ==
    LET date == row.appointment_date
        opened == IF EntryOf(calendarData, date) = 0
                  THEN Append(calendarData, [date |-> date, appointmentCount |-> 0,
                                             appointments |-> <<>>])
                  ELSE calendarData
    IN  IF row.appointment_id # NoId
        THEN [opened EXCEPT ![EntryOf(opened, date)].appointments =
                                Append(@, convertToAppointment(row))]
        ELSE opened

\* the body of result.rows.forEach in the calendar view
calendarRow(calendarData, row) ==
    LET date == row.appointment_date
        opened == IF EntryOf(calendarData, date) = 0
                  THEN Append(calendarData, [date |-> date, appointmentCount |-> 0,
                                             appointments |-> <<>>])
                  ELSE calendarData
    IN  IF row.appointment_id # NoId
        THEN [opened EXCEPT ![EntryOf(opened, date)].appointments =
                                Append(@, convertToAppointment(row)),
                            ![EntryOf(opened, date)].appointmentCount = @ + 1]
        ELSE opened

RECURSIVE getCalendarViewAppointments(_)
getCalendarViewAppointments(rows) ==
    IF rows = <<>> THEN <<>>
    ELSE calendarRow(getCalendarViewAppointments(SubSeq(rows, 1, Len(rows) - 1)),
                     rows[Len(rows)])

NoViews == [weekBuilt |-> FALSE, week |-> <<>>, calendarBuilt |-> FALSE, calendar |-> <<>>]

QuietViews ==
    /\ viewRows = <<>>
    /\ views = NoViews

(***************************************************************************)
(* The reminder router.  A request path is the sequence of its segments;   *)
(* a pattern segment that starts with a colon is a parameter and matches   *)
(* any one segment.  The router tries the routes in the order in which     *)
(* they were registered and every handler answers the request itself, so   *)
(* the first route that matches handles the request.                       *)
(***************************************************************************)
RouteParams == {":agentId", ":reminderId", ":reminderType", ":status"}

Route(method, pattern, handler) ==
    [method |-> method, pattern |-> pattern, handler |-> handler]

\* router.<method>(pattern, handler), in the order of registration
reminderRoutes ==
    <<Route("POST", <<>>, "createReminder"),
      Route("GET", <<"agent", ":agentId">>, "getAllReminders"),
      Route("GET", <<"agent", ":agentId", "reminder", ":reminderId">>, "getReminderById"),
      Route("GET", <<":reminderId">>, "getReminderById"),
      Route("PUT", <<"agent", ":agentId", "reminder", ":reminderId">>, "updateReminder"),
      Route("PUT", <<":reminderId">>, "updateReminder"),
      Route("DELETE", <<"agent", ":agentId", "reminder", ":reminderId">>, "deleteReminder"),
      Route("DELETE", <<":reminderId">>, "deleteReminder"),
      Route("POST", <<"agent", ":agentId", "reminder", ":reminderId", "complete">>,
            "completeReminder"),
      Route("POST", <<":reminderId", "complete">>, "completeReminder"),
      Route("GET", <<"agent", ":agentId", "today">>, "getTodayReminders"),
      Route("GET", <<"agent", ":agentId", "type", ":reminderType">>, "getRemindersByType"),
      Route("GET", <<"agent", ":agentId", "status", ":status">>, "getRemindersByStatus"),
      Route("GET", <<"agent", ":agentId", "birthdays">>, "getBirthdayReminders"),
      Route("GET", <<"agent", ":agentId", "policy-expiry">>, "getPolicyExpiryReminders"),
      Route("GET", <<"agent", ":agentId", "statistics">>, "getReminderStatistics"),
      Route("GET", <<"agent", ":agentId", "settings">>, "getReminderSettings"),
      Route("PUT", <<"agent", ":agentId", "settings">>, "updateReminderSettings"),
      Route("POST", <<"validate-phone">>, "validatePhoneNumber"),
      Route("GET", <<"today">>, "getTodayReminders"),
      Route("GET", <<"statistics">>, "getReminderStatistics"),
      Route("GET", <<"settings">>, "getReminderSettings"),
      Route("PUT", <<"settings">>, "updateReminderSettings"),
      Route("GET", <<"birthdays">>, "getBirthdayReminders"),
      Route("GET", <<"policy-expiry">>, "getPolicyExpiryReminders")>>

\* the pattern matches the path, segment by segment
Matches(pattern, path) ==
    /\ Len(pattern) = Len(path)
    /\ \A i \in 1..Len(pattern) : pattern[i] \in RouteParams \/ pattern[i] = path[i]

\* the handler of the first registered route of the method that matches the
\* path, "none" (the router's 404) when no route does
Dispatch(method, path) ==
    LET hits == {i \in 1..Len(reminderRoutes) :
                    /\ reminderRoutes[i].method = method
                    /\ Matches(reminderRoutes[i].pattern, path)}
    IN  IF hits = {} THEN "none"
        ELSE reminderRoutes[CHOOSE i \in hits : \A j \in hits : i <= j].handler

NoRouted == [pc |-> "idle", method |-> "", path |-> <<>>, handler |-> ""]

(***************************************************************************)
(* convertToAppointment over the aliases of a field.  A row holds, under   *)
(* each key, a JavaScript value; a key the row does not have reads as      *)
(* undefined.  Modelled are clientName (one of the fields joined by ||)    *)
(* and reminderSet and isActive (the two fields joined by ??).             *)
(***************************************************************************)
Bool(b) == [kind |-> "boolean", chars |-> <<>>, n |-> IF b THEN 1 ELSE 0]

\* ToBoolean of a null, undefined, boolean, number or string value
ToBoolean(v) == TruthyValue(v) /\ ~(v.kind = "boolean" /\ v.n = 0)

\* a || b
OrElse(a, b) == IF ToBoolean(a) THEN a ELSE b

\* a ?? b
Coalesce(a, b) == IF a.kind \in {"null", "undefined"} THEN b ELSE a

convertToAppointment_aliases(row) ==
    [clientName |-> OrElse(OrElse(row.client_name, row.clientName), row.clientname),
     reminderSet |-> Coalesce(Coalesce(Coalesce(row.reminder_set, row.reminderSet),
                                       row.reminderset), Bool(FALSE)),
     isActive |-> Coalesce(Coalesce(Coalesce(row.is_active, row.isActive),
                                    row.isactive), Bool(TRUE))]

NoRow ==
    [client_name |-> Undefined, clientName |-> Undefined, clientname |-> Undefined,
     reminder_set |-> Undefined, reminderSet |-> Undefined, reminderset |-> Undefined,
     is_active |-> Undefined, isActive |-> Undefined, isactive |-> Undefined]

NoMapper == [pc |-> "idle", row |-> NoRow, result |-> convertToAppointment_aliases(NoRow)]

(***************************************************************************)
(* sp_get_today_birthdays: the active clients of the agent whose day and   *)
(* month of birth are those of NOW().  The function returns a table whose  *)
(* columns client_id and date_of_birth bear the names of columns of        *)
(* clients, which the query uses unqualified; what the names stand for is  *)
(* settled by plpgsql.variable_conflict: "error" raises (the default),     *)
(* "use_column" reads the table, "use_variable" reads the still null       *)
(* output variable.                                                        *)
(***************************************************************************)
VariableConflicts == {"error", "use_column", "use_variable"}

sp_get_today_birthdays(clients, p_agent_id, now, conflict) ==
    [raised |-> conflict = "error",
     rows |-> IF conflict # "use_column" THEN {}
              ELSE {cl.client_id : cl \in
                       {c \in clients :
                           /\ c.agent_id = p_agent_id
                           /\ c.is_active
                           /\ c.date_of_birth # NoDob
                           /\ c.date_of_birth.d = now.d
                           /\ c.date_of_birth.m = now.m}}]

NoBirthdays == [pc |-> "idle", agent |-> "", conflict |-> "", raised |-> FALSE, rows |-> {}]

QuietPure ==
    /\ routed = NoRouted
    /\ mapper = NoMapper
    /\ birthdays = NoBirthdays

(***************************************************************************)
(* The reminders table behind the lifecycle endpoints.  The procedures     *)
(* sp_update_reminder, sp_complete_reminder, sp_delete_reminder and        *)
(* sp_get_reminder_by_id are an opaque boundary: given the parameters of   *)
(* the call they act on the row of the reminder that belongs to the agent  *)
(* and return the number of rows affected.  A null parameter of the update *)
(* leaves its column as it is; deletion removes the row.                   *)
(***************************************************************************)
ReminderIds == {"r1"}
ReminderOwner == "agentA"
Statuses == {"Active", "Completed", "Cancelled"}

HasRow(tbl, id, agent) == id \in DOMAIN tbl /\ tbl[id] # "none" /\ agent = ReminderOwner

sp_update_reminder(tbl, args) ==
    IF HasRow(tbl, args.reminderId, args.agentId)
    THEN [tbl EXCEPT ![args.reminderId] = IF args.Status = "" THEN @ ELSE args.Status]
    ELSE tbl

sp_complete_reminder(tbl, id, agent) ==
    IF HasRow(tbl, id, agent) THEN [tbl EXCEPT ![id] = "Completed"] ELSE tbl

sp_delete_reminder(tbl, id, agent) ==
    IF HasRow(tbl, id, agent) THEN [tbl EXCEPT ![id] = "none"] ELSE tbl

\* the table after storage has run the calls of a handler
RECURSIVE Stored(_, _)
Stored(tbl, calls) ==
    IF calls = <<>> THEN tbl
    ELSE LET call == Head(calls)
             next == CASE call.proc = "sp_update_reminder" ->
                             sp_update_reminder(tbl, call.args)
                       [] call.proc = "sp_complete_reminder" ->
                             sp_complete_reminder(tbl, call.args[1], call.args[2])
                       [] call.proc = "sp_delete_reminder" ->
                             sp_delete_reminder(tbl, call.args[1], call.args[2])
                       [] OTHER -> tbl
         IN  Stored(next, Tail(calls))

\* what storage answers to a call on the reminder: fail is "none" when the
\* client was handed out and the query ran
Failures == {"none", "query_failed", "no_client"}

AnswerOf(tbl, id, agent, fail) ==
    IF fail # "none" THEN fail
    ELSE IF HasRow(tbl, id, agent) THEN "ok" ELSE "no_rows"

NoLife ==
    [pc |-> "idle", op |-> "none", req |-> NoRequest, agent |-> "", calls |-> <<>>,
     trace |-> <<>>, status |-> 0, body |-> ""]

QuietLifecycle ==
    /\ store = [id \in ReminderIds |-> "none"]
    /\ lx = [c \in Callers |-> NoLife]

(***************************************************************************)
(* Spec: the appointment requests of one caller, each answered before the  *)
(* next is sent.                                                           *)
(***************************************************************************)
SeqCaller == "c1"

InitAppointments ==
    /\ appointments = <<>>
    /\ exch = [c \in Callers |-> NoExchange]
    /\ booking = [c \in Callers |-> NoBooking]

Create ==
    \E a \in Agents, b \in CreateBodies, o \in StorageOutcomes \cup {"declined"} :
        /\ Idle(SeqCaller)
        /\ createAppointment(SeqCaller, a, b, o)
        /\ UNCHANGED <<booking, remVars, timeVars, endpointVars, viewVars, pureVars, lifeVars>>

Notify ==
    \E n \in Notifications :
        /\ createAppointment_notify(SeqCaller, n)
        /\ UNCHANGED <<booking, remVars, timeVars, endpointVars, viewVars, pureVars, lifeVars>>

Update ==
    \E a \in Agents, i \in AppointmentIds, b \in UpdateBodies, o \in StorageOutcomes :
        /\ Idle(SeqCaller)
        /\ updateAppointment(SeqCaller, a, i, b, o)
        /\ UNCHANGED <<booking, remVars, timeVars, endpointVars, viewVars, pureVars, lifeVars>>

Delete ==
    \E a \in Agents, i \in AppointmentIds, o \in {"ok", "other"} :
        /\ Idle(SeqCaller)
        /\ deleteAppointment(SeqCaller, a, i, o)
        /\ UNCHANGED <<booking, remVars, timeVars, endpointVars, viewVars, pureVars, lifeVars>>

Check ==
    \E a \in Agents, b \in CheckBodies, o \in {"ok", "other"} :
        /\ Idle(SeqCaller)
        /\ checkAppointmentConflicts(SeqCaller, a, b, o)
        /\ UNCHANGED <<booking, remVars, timeVars, endpointVars, viewVars, pureVars, lifeVars>>

\* the caller has read the response and may send its next request
Deliver ==
    /\ exch[SeqCaller].pc = "done"
    /\ exch' = [exch EXCEPT ![SeqCaller] = NoExchange]
    /\ UNCHANGED <<appointments, booking, remVars, timeVars, endpointVars, viewVars, pureVars, lifeVars>>

Next == Create \/ Notify \/ Update \/ Delete \/ Check \/ Deliver

Init ==
    /\ InitAppointments /\ QuietReminders /\ QuietTime /\ QuietEndpoints /\ QuietViews
    /\ QuietPure /\ QuietLifecycle

Spec == Init /\ [][Next]_vars

(***************************************************************************)
(* SpecBooking: two callers book concurrently.  Each asks the conflict     *)
(* endpoint about its window and, told there is no conflict, sends the     *)
(* create request for that window; the handlers interleave at their        *)
(* awaits.                                                                 *)
(***************************************************************************)
BookingBody(d, w) ==
    [clientId |-> "client1", title |-> "Policy review", type |-> "Meeting",
     appointmentDate |-> d, startTime |-> w[1], endTime |-> w[2],
     excludeAppointmentId |-> NoId]

BookCheck ==
    \E c \in Callers, a \in Agents, d \in Dates, w \in Windows, o \in {"ok", "other"} :
        /\ Idle(c)
        /\ booking[c].stage = "none"
        /\ checkAppointmentConflicts(c, a, BookingBody(d, w), o)
        /\ UNCHANGED <<booking, remVars, timeVars, endpointVars, viewVars, pureVars, lifeVars>>

BookDecide ==
    \E c \in Callers :
        /\ exch[c].pc = "done"
        /\ exch[c].op = "check"
        /\ booking' = [booking EXCEPT ![c] =
              IF exch[c].status = 200 /\ ~exch[c].hasConflicts
              THEN [stage |-> "checked", agent |-> exch[c].agent,
                    date |-> exch[c].date, start |-> exch[c].start,
                    end |-> exch[c].end]
              ELSE @]
        /\ exch' = [exch EXCEPT ![c] = NoExchange]
        /\ UNCHANGED <<appointments, remVars, timeVars, endpointVars, viewVars, pureVars, lifeVars>>

BookCreate ==
    \E c \in Callers, o \in StorageOutcomes \cup {"declined"} :
        /\ Idle(c)
        /\ booking[c].stage = "checked"
        /\ createAppointment(c, booking[c].agent,
                             BookingBody(booking[c].date,
                                         <<booking[c].start, booking[c].end>>), o)
        /\ booking' = [booking EXCEPT ![c].stage = "submitted"]
        /\ UNCHANGED <<remVars, timeVars, endpointVars, viewVars, pureVars, lifeVars>>

BookNotify ==
    \E c \in Callers, n \in Notifications :
        /\ createAppointment_notify(c, n)
        /\ UNCHANGED <<booking, remVars, timeVars, endpointVars, viewVars, pureVars, lifeVars>>

NextBooking == BookCheck \/ BookDecide \/ BookCreate \/ BookNotify

SpecBooking == Init /\ [][NextBooking]_vars

(***************************************************************************)
(* Properties of the appointment subsystem.                                *)
(***************************************************************************)
\* two half-open windows [s1,e1) and [s2,e2) have an instant in common
SharesInstant(s1, e1, s2, e2) ==
    \E t \in Times : s1 <= t /\ t < e1 /\ s2 <= t /\ t < e2

\* the active appointments of an agent on a date whose window shares an
\* instant with [s,e)
Clashing(agent, date, s, e) ==
    {i \in DOMAIN appointments :
        /\ appointments[i].active
        /\ appointments[i].agent = agent
        /\ appointments[i].date = date
        /\ SharesInstant(appointments[i].start, appointments[i].end, s, e)}

Procs(x) == {x.calls[k].proc : k \in 1..Len(x.calls)}

SuppliesDateTime(x) == x.date # NoDate \/ x.start # NoTime \/ x.end # NoTime

\* C1: in every create request, and every update request that supplies
\* date/time fields, the storage write is preceded by a conflict check of
\* the same handler (and is issued only when that check found no conflict).
C1_CheckBeforeWrite ==
    \A c \in Callers :
        LET x == exch[c]
        IN  \A k \in 1..Len(x.calls) :
                (/\ x.op \in {"create", "update"}
                 /\ SuppliesDateTime(x)
                 /\ x.calls[k].proc \in {"sp_create_appointment", "sp_update_appointment"})
                => \E j \in 1..(k - 1) :
                       x.calls[j].proc = "sp_check_appointment_conflicts"

\* C2: after any sequence of create and update requests handled one after
\* the other, no two active appointments of one agent on one date have
\* intersecting half-open windows.
C2_NoOverlappingAppointments ==
    \A i, j \in DOMAIN appointments :
        (/\ i # j
         /\ appointments[i].active /\ appointments[j].active
         /\ appointments[i].agent = appointments[j].agent
         /\ appointments[i].date = appointments[j].date)
        => ~SharesInstant(appointments[i].start, appointments[i].end,
                          appointments[j].start, appointments[j].end)

CheckAnswered(x) == x.pc = "done" /\ x.op = "check" /\ x.status = 200

\* C3: a conflict check reports hasConflicts = true exactly when some active
\* appointment of the same agent on the same date (other than the excluded
\* one) has a window sharing an instant with the candidate's half-open
\* window; touching end points are no conflict.
C3_ConflictIffHalfOpenOverlap ==
    \A c \in Callers :
        LET x == exch[c]
        IN  CheckAnswered(x) =>
                (x.hasConflicts <=>
                    Clashing(x.agent, x.date, x.start, x.end) \ {x.exclude} # {})

\* C3 witness: a check answered "no conflict" although an active appointment
\* of the same agent and date ends exactly where the candidate starts.
C3_TouchingWitness ==
    \E c \in Callers :
        /\ CheckAnswered(exch[c])
        /\ ~exch[c].hasConflicts
        /\ \E i \in DOMAIN appointments :
               /\ appointments[i].active
               /\ appointments[i].agent = exch[c].agent
               /\ appointments[i].date = exch[c].date
               /\ appointments[i].end = exch[c].start

ConflictingIds(x) ==
    {x.conflicting[k].appointmentId : k \in 1..Len(x.conflicting)}

\* C4: with excludeAppointmentId = X the appointment X is never listed in
\* conflictingAppointments and never makes hasConflicts true; the storage
\* check receives X, and null when no id is given, in which case every
\* clashing appointment is listed.
C4_ExcludedNeverConflicts ==
    \A c \in Callers :
        LET x == exch[c]
        IN  CheckAnswered(x) =>
                /\ x.calls[1].args[5] = x.exclude
                /\ x.exclude # NoId =>
                      /\ x.exclude \notin ConflictingIds(x)
                      /\ x.hasConflicts =>
                            Clashing(x.agent, x.date, x.start, x.end) \ {x.exclude} # {}
                /\ x.exclude = NoId =>
                      ConflictingIds(x) = Clashing(x.agent, x.date, x.start, x.end)

\* C4 witness: the excluded appointment itself overlaps the candidate window
\* and the check reports no conflict.
C4_SelfOverlapWitness ==
    \E c \in Callers :
        /\ CheckAnswered(exch[c])
        /\ exch[c].exclude \in Clashing(exch[c].agent, exch[c].date,
                                        exch[c].start, exch[c].end)
        /\ ~exch[c].hasConflicts

BookedOk(c) ==
    /\ booking[c].stage = "submitted"
    /\ exch[c].op = "create"
    /\ exch[c].pc = "done"
    /\ exch[c].status = 201

\* C5: check-then-create is not atomic.  Whenever two callers were both told
\* "no conflict" for windows of one agent and date that share an instant and
\* both create requests were answered 201, the table holds both appointments,
\* active and overlapping.
C5_BothBookingsStored ==
    \A c, d \in Callers :
        (/\ c # d
         /\ BookedOk(c) /\ BookedOk(d)
         /\ exch[c].agent = exch[d].agent
         /\ exch[c].date = exch[d].date
         /\ SharesInstant(exch[c].start, exch[c].end, exch[d].start, exch[d].end))
        => /\ exch[c].created # exch[d].created
           /\ {exch[c].created, exch[d].created} \subseteq
                  Clashing(exch[c].agent, exch[c].date, exch[c].start, exch[c].end)

\* C5 witness: two such bookings, both answered 201.
C5_RaceWitness ==
    \E c, d \in Callers :
        /\ c # d
        /\ BookedOk(c) /\ BookedOk(d)
        /\ exch[c].agent = exch[d].agent
        /\ exch[c].date = exch[d].date
        /\ SharesInstant(exch[c].start, exch[c].end, exch[d].start, exch[d].end)
        /\ ~C2_NoOverlappingAppointments

(***************************************************************************)
(* SpecReminders: GET reminders requests of every shape against a few      *)
(* stored snapshots.  SpecCounts: a few requests against many snapshots.   *)
(***************************************************************************)
MaxRows == 2

Todays == {Date(2023, 2, 24), Date(2024, 2, 24), Date(2023, 12, 28)}

ReminderRows == {[reminder_id |-> "r1", agent_id |-> "agentA", status |-> "Active"],
                 [reminder_id |-> "r2", agent_id |-> "agentA", status |-> "Completed"],
                 [reminder_id |-> "r3", agent_id |-> "agentB", status |-> "Active"]}

ClientRows ==
    {[client_id |-> "k1", agent_id |-> "agentA", is_active |-> TRUE,
      date_of_birth |-> Date(1990, 1, 2)],
     [client_id |-> "k2", agent_id |-> "agentA", is_active |-> TRUE,
      date_of_birth |-> Date(1992, 2, 29)],
     [client_id |-> "k3", agent_id |-> "agentA", is_active |-> FALSE,
      date_of_birth |-> Date(1985, 2, 25)],
     [client_id |-> "k4", agent_id |-> "agentA", is_active |-> TRUE,
      date_of_birth |-> NoDob],
     [client_id |-> "k5", agent_id |-> "agentB", is_active |-> TRUE,
      date_of_birth |-> Date(1971, 3, 3)]}

PolicyRows ==
    {[policy_id |-> "p1", client_id |-> "k1", is_active |-> TRUE,
      end_date |-> Date(2023, 3, 26)],
     [policy_id |-> "p2", client_id |-> "k3", is_active |-> TRUE,
      end_date |-> Date(2024, 1, 27)],
     [policy_id |-> "p3", client_id |-> "k2", is_active |-> FALSE,
      end_date |-> Date(2024, 3, 1)],
     [policy_id |-> "p4", client_id |-> "k5", is_active |-> TRUE,
      end_date |-> Date(2023, 2, 23)]}

StoredAppointment(agent, active) ==
    [agent |-> agent, date |-> "2025-03-10", start |-> 1, end |-> 2, active |-> active]

AppointmentSnapshots ==
    {<<>>,
     (1 :> StoredAppointment("agentA", TRUE)),
     (1 :> StoredAppointment("agentA", TRUE)) @@ (2 :> StoredAppointment("agentA", FALSE)),
     (1 :> StoredAppointment("agentB", TRUE)) @@ (2 :> StoredAppointment("agentA", TRUE))}

\* what the retrieval procedure may answer: up to MaxRows rows, all with the
\* same total_records (as the driver delivers a bigint: a decimal string)
Totals == {<<"0">>, <<"1">>, <<"4", "0">>, <<"4", "1">>, <<"4", "5">>}
RowSets == {[i \in 1..n |-> [total_records |-> t]] : n \in 0..MaxRows, t \in Totals}

QueryParams(types, statuses, priorities, starts, ends, clients, sizes, numbers) ==
    [reminderType : types, status : statuses, priority : priorities,
     startDate : starts, endDate : ends, clientId : clients,
     pageSize : sizes, pageNumber : numbers]

WideQueries ==
    QueryParams({"", "Call", "Meeting"}, {"", "Active"}, {"", "High"},
                {"", "2025-03-10"}, {"", "2025-03-11"}, {"", "k1"},
                {<<>>, <<"0">>, <<"1", "0">>, <<"a", "b">>, <<"-", "5">>},
                {<<>>, <<"2">>})

NarrowQueries ==
    QueryParams({""}, {"", "Active"}, {""}, {""}, {""}, {""}, {<<>>}, {<<>>})

\* every policy row belongs to a stored client (the foreign key of the table)
PoliciesOf(clients) ==
    {ps \in SUBSET PolicyRows :
        \A cp \in ps : \E cl \in clients : cl.client_id = cp.client_id}

InitReminders ==
    /\ exch = [c \in Callers |-> NoExchange]
    /\ booking = [c \in Callers |-> NoBooking]
    /\ appointments = (1 :> StoredAppointment("agentA", TRUE))
    /\ today \in Todays
    /\ remindersTbl = ReminderRows
    /\ clientsTbl = ClientRows
    /\ policiesTbl = PolicyRows
    /\ remx = NoRemExchange
    /\ QuietTime
    /\ QuietEndpoints
    /\ QuietViews
    /\ QuietPure
    /\ QuietLifecycle

InitCounts ==
    /\ exch = [c \in Callers |-> NoExchange]
    /\ booking = [c \in Callers |-> NoBooking]
    /\ appointments \in AppointmentSnapshots
    /\ today \in Todays
    /\ remindersTbl \in SUBSET ReminderRows
    /\ clientsTbl \in SUBSET ClientRows
    /\ policiesTbl \in PoliciesOf(clientsTbl)
    /\ remx = NoRemExchange
    /\ QuietTime
    /\ QuietEndpoints
    /\ QuietViews
    /\ QuietPure
    /\ QuietLifecycle

GetAll(agents, queries, rowSets, outcomes) ==
    /\ remx.pc = "idle"
    /\ \E a \in agents, q \in queries, rows \in rowSets, o \in outcomes :
           getAllReminders(a, q, rows, o)
    /\ pool' = pool + CheckedOut(remx'.trace)
    /\ UNCHANGED <<apptVars, today, remindersTbl, clientsTbl, policiesTbl, timeVars, rx, viewVars, pureVars, lifeVars>>

GetAllReminders == GetAll(Agents \cup {""}, WideQueries, RowSets, RetrievalOutcomes)

GetAllCounted ==
    GetAll(Agents, NarrowQueries,
           {rs \in RowSets : \A i \in DOMAIN rs : rs[i].total_records = <<"1">>},
           {"ok", "count_failed"})

\* the caller has read the page and may send its next request
DeliverPage ==
    /\ remx.pc = "done"
    /\ remx' = NoRemExchange
    /\ UNCHANGED <<apptVars, today, remindersTbl, clientsTbl, policiesTbl, timeVars, endpointVars, viewVars, pureVars, lifeVars>>

NextReminders == GetAllReminders \/ DeliverPage

SpecReminders == InitReminders /\ [][NextReminders]_vars

NextCounts == GetAllCounted \/ DeliverPage

SpecCounts == InitCounts /\ [][NextCounts]_vars

(***************************************************************************)
(* Properties of the reminder query composer                               *)
(***************************************************************************)
RetrievalProcs == {"sp_get_all_reminders", "sp_get_all_reminders_with_filters"}
NarrowingKeys == {"ReminderType", "Status", "Priority", "ClientId"}
WideningKeys == {"StartDate", "EndDate", "PageNumber", "PageSize"}

\* the request reached the service
Served == remx.pc = "done" /\ remx.status # 400
Answered == remx.pc = "done" /\ remx.status = 200

RetrievalCalls == {k \in 1..Len(remx.calls) : remx.calls[k].proc \in RetrievalProcs}
UsedPath(proc) == \E k \in RetrievalCalls : remx.calls[k].proc = proc

\* C6: the filtered retrieval procedure is called exactly when one of
\* ReminderType, Status, Priority, ClientId is among the filters; filters made
\* only of StartDate, EndDate, PageNumber, PageSize go to the unfiltered
\* procedure; every request that reaches the service issues exactly one
\* retrieval call.
C6_FilteredPathIffNarrowingFilter ==
    Served =>
        /\ Cardinality(RetrievalCalls) = 1
        /\ UsedPath("sp_get_all_reminders_with_filters")
               <=> (DOMAIN remx.filters \cap NarrowingKeys # {})
        /\ DOMAIN remx.filters \subseteq WideningKeys
               => UsedPath("sp_get_all_reminders")
        /\ ~(UsedPath("sp_get_all_reminders")
               /\ UsedPath("sp_get_all_reminders_with_filters"))

C6_DatesAndPagingWitness ==
    /\ Served
    /\ DOMAIN remx.filters = WideningKeys
    /\ UsedPath("sp_get_all_reminders")

\* C7: in every page returned, totalPages is the ceiling of
\* totalRecords / pageSize for the pageSize of the same page: no records
\* give no pages, 45 records in pages of 20 give 3 pages.
C7_TotalPagesIsCeiling ==
    Answered =>
        LET tr == remx.page.totalRecords
            ps == remx.page.pageSize
            tp == remx.page.totalPages
        IN  /\ ps # 0
            /\ ps > 0 => tp * ps >= tr /\ (tp - 1) * ps < tr
            /\ ps < 0 => tp * ps <= tr /\ (tp - 1) * ps > tr
            /\ tr = 0 => tp = 0
            /\ (tr = 45 /\ ps = 20) => tp = 3

C7_FortyFiveByTwentyWitness ==
    /\ Answered
    /\ remx.page.totalRecords = 45
    /\ remx.page.pageSize = 20
    /\ remx.page.totalPages = 3

\* the birthday of a client in year y, and whether the client has a
\* birthday on one of the days now .. now + n
BirthdayInYear(dob, y) ==
    IF dob.m = 2 /\ dob.d = 29 /\ ~IsLeap(y) THEN Date(y, 2, 28) ELSE Date(y, dob.m, dob.d)

HasBirthdayWithin(dob, now, n) ==
    \E y \in {now.y, now.y + 1} : WithinDays(BirthdayInYear(dob, y), now, n)

NativeReminders(agentId) == {r \in remindersTbl : r.agent_id = agentId}

ExpiringPolicies(agentId) ==
    {cp \in policiesTbl :
        /\ cp.is_active
        /\ \E cl \in clientsTbl : cl.client_id = cp.client_id /\ cl.agent_id = agentId
        /\ WithinDays(cp.end_date, today, 30)}

UpcomingBirthdays(agentId) ==
    {cl \in clientsTbl :
        /\ cl.agent_id = agentId
        /\ cl.is_active
        /\ cl.date_of_birth # NoDob
        /\ HasBirthdayWithin(cl.date_of_birth, today, 7)}

ActiveAppointments(agentId) ==
    {i \in DOMAIN appointments : appointments[i].agent = agentId /\ appointments[i].active}

\* C8: without a narrowing filter totalRecords is the number of the agent's
\* reminders, plus the active policies of the agent's clients that end within
\* 30 days, plus the active clients with a birthday within 7 days, plus the
\* agent's active appointments, whatever rows the retrieval returned; with a
\* narrowing filter it is the total_records of the first row returned, and 0
\* when no row is returned.
C8_TotalRecordsBySource ==
    Answered =>
        IF UsedPath("sp_get_all_reminders")
        THEN remx.page.totalRecords =
                 Cardinality(NativeReminders(remx.agent))
                 + Cardinality(ExpiringPolicies(remx.agent))
                 + Cardinality(UpcomingBirthdays(remx.agent))
                 + Cardinality(ActiveAppointments(remx.agent))
        ELSE remx.page.totalRecords =
                 IF remx.rows = <<>> THEN 0 ELSE DecValue(remx.rows[1].total_records)

(***************************************************************************)
(* SpecTime: one call of validateAndFormatPostgreSQLTime on each value of  *)
(* TimeInputs.                                                             *)
(***************************************************************************)
DigitSet == {DigitChars[i] : i \in 1..Len(DigitChars)}

\* the minute and second fields tried in HH:MM:SS inputs (HH:MM inputs take
\* all of them)
FieldSamples == {<<"0", "0">>, <<"0", "7">>, <<"3", "0">>, <<"5", "9">>, <<"6", "0">>,
                 <<"6", "1">>, <<"9", "9">>}

OneDigitHourInputs == {<<a, ":", c, d>> : a \in DigitSet, c \in DigitSet, d \in DigitSet}
TwoDigitHourInputs ==
    {<<a, b, ":", c, d>> : a \in DigitSet, b \in DigitSet, c \in DigitSet, d \in DigitSet}
LongClockInputs ==
    {<<a, b, ":">> \o m \o <<":">> \o sec :
        a \in DigitSet, b \in DigitSet, m \in FieldSamples, sec \in FieldSamples}

OtherStrings ==
    {<<>>,
     <<"n", "u", "l", "l">>,
     <<"u", "n", "d", "e", "f", "i", "n", "e", "d">>,
     <<" ", " ", " ">>,
     <<"a", "b", "c">>,
     <<" ", "9", ":", "3", "0", " ">>,
     <<" ", "2", "3", ":", "5", "9", ":", "5", "9">>,
     <<"9", ":", "3", "0", ":", "0", "0">>,
     <<"1", "2", ":", "5">>,
     <<"1", ":", "2", ":", "3">>,
     <<"1", "0", ":", "0", "0", ":", "0", "0", "Z">>,
     <<"1", "0", ":", "0", "0", ":", "0", "0", ".", "0", "0", "0">>,
     <<"1", "0", ":", "0", "0", " ", "A", "M">>,
     <<"T">>,
     <<"-", "5">>,
     <<"2", "0", "2", "5", "-", "0", "3", "-", "1", "0", "T", "1", "4", ":", "3", "0", ":", "0", "0", "Z">>,
     <<"2", "0", "2", "5", "-", "0", "3", "-", "1", "0">>,
     <<"2", "0", "2", "5", "-", "0", "2", "-", "3", "0", "T", "1", "0", ":", "0", "0", ":", "0", "0", "Z">>,
     <<"2", "0", "2", "5", "-", "0", "3", "-", "1", "0", "T", "2", "5", ":", "0", "0", ":", "0", "0", "Z">>,
     <<"2", "0", "2", "5", "-", "0", "3", "-", "1", "0", "T", "1", "4", ":", "3", "0", ":", "0", "0">>,
     <<"2", "0", "2", "5", "-", "1", "3", "-", "0", "1">>,
     <<"2", "4", ":", "0", "0", ":", "0", "0", "Z">>}

TimeInputs ==
    {Null, Undefined, Number(0), Number(930)}
        \cup {Str(cs) : cs \in OneDigitHourInputs \cup TwoDigitHourInputs
                                   \cup LongClockInputs \cup OtherStrings}

InitTime ==
    /\ InitAppointments
    /\ QuietReminders
    /\ timeString \in TimeInputs
    /\ normalized = NotCalled
    /\ QuietEndpoints
    /\ QuietViews
    /\ QuietPure
    /\ QuietLifecycle

Normalize ==
    /\ normalized = NotCalled
    /\ LET cleanTime == Trim(ToStringOf(timeString))
       IN  \E d3 \in NewDate(cleanTime), d4 \in NewDate(DatePrefix \o cleanTime) :
               normalized' = validateAndFormatPostgreSQLTime(timeString, d3, d4)
    /\ UNCHANGED <<apptVars, remVars, timeString, endpointVars, viewVars, pureVars, lifeVars>>

NextTime == Normalize

SpecTime == InitTime /\ [][NextTime]_vars

(***************************************************************************)
(* Properties of the time normaliser                                       *)
(***************************************************************************)
Called == normalized # NotCalled

\* the fields of an input of shape H:MM, HH:MM or HH:MM:SS, read as numbers
HourOf(cs) == IF cs[2] = ":" THEN DigitVal(cs[1]) ELSE 10 * DigitVal(cs[1]) + DigitVal(cs[2])
MinuteOf(cs) ==
    LET k == IF cs[2] = ":" THEN 3 ELSE 4 IN 10 * DigitVal(cs[k]) + DigitVal(cs[k + 1])
SecondOf(cs) == 10 * DigitVal(cs[7]) + DigitVal(cs[8])

ShortClock(cs) == Shape(cs, <<"d", ":", "d", "d">>) \/ Shape(cs, <<"d", "d", ":", "d", "d">>)
LongClock(cs) == Shape(cs, <<"d", "d", ":", "d", "d", ":", "d", "d">>)

\* C9: 'H:MM' and 'HH:MM' with H in 0..23 and M in 0..59 give the zero-padded
\* 'HH:MM:00'; 'HH:MM:SS' with all three fields in range is returned as it
\* is; an input of shape HH:MM or HH:MM:SS with a field out of range gives
\* null, and only the format it matched was attempted.
C9_ClockTimesNormalized ==
    (Called /\ timeString.kind = "string") =>
        LET cs == timeString.chars
        IN  /\ (ShortClock(cs) /\ HourOf(cs) <= 23 /\ MinuteOf(cs) <= 59) =>
                   /\ ~normalized.raised /\ ~normalized.isNull
                   /\ normalized.value =
                          (IF Len(cs) = 4 THEN <<"0">> ELSE <<>>) \o cs \o <<":", "0", "0">>
            /\ (LongClock(cs) /\ HourOf(cs) <= 23 /\ MinuteOf(cs) <= 59
                   /\ SecondOf(cs) <= 59) =>
                   /\ ~normalized.raised /\ ~normalized.isNull
                   /\ normalized.value = cs
            /\ (ShortClock(cs) /\ (HourOf(cs) > 23 \/ MinuteOf(cs) > 59)) =>
                   /\ normalized.isNull
                   /\ normalized.tried = <<2>>
            /\ (LongClock(cs) /\ (HourOf(cs) > 23 \/ MinuteOf(cs) > 59
                   \/ SecondOf(cs) > 59)) =>
                   /\ normalized.isNull
                   /\ normalized.tried = <<1>>

C9_MidnightTwentyFourWitness ==
    /\ Called
    /\ timeString = Str(<<"2", "4", ":", "0", "0", ":", "0", "0">>)
    /\ normalized.isNull
    /\ normalized.tried = <<1>>

Canonical(cs) ==
    /\ Shape(cs, <<"d", "d", ":", "d", "d", ":", "d", "d">>)
    /\ HourOf(cs) <= 23 /\ MinuteOf(cs) <= 59 /\ SecondOf(cs) <= 59

\* C10: the call never raises; null, undefined, '', 'null' and 'undefined'
\* give null, and so does every string that no format parses (the last
\* attempt made being the fourth); every result that is not null is an
\* HH:MM:SS string with its fields in range.
C10_NullOrCanonicalNeverRaises ==
    Called =>
        /\ ~normalized.raised
        /\ timeString \in {Null, Undefined, Str(<<>>), Str(<<"n", "u", "l", "l">>), Str(<<"u", "n", "d", "e", "f", "i", "n", "e", "d">>)}
               => normalized.isNull
        /\ ~normalized.isNull => Canonical(normalized.value)
        /\ (normalized.isNull /\ normalized.tried # <<>>) =>
               normalized.tried \in {<<1>>, <<2>>, <<4>>, <<3, 4>>}
        /\ (timeString.kind = "string" /\ normalized.tried \in {<<4>>, <<3, 4>>}) =>
               ~ShortClock(Trim(timeString.chars)) /\ ~LongClock(Trim(timeString.chars))

C10_UnparseableWitness ==
    /\ Called
    /\ timeString = Str(<<"a", "b", "c">>)
    /\ normalized.isNull
    /\ normalized.tried = <<4>>

(***************************************************************************)
(* SpecEndpoints: requests to every reminder endpoint, of every shape,     *)
(* one after the other, against storage that answers, reports no row,      *)
(* fails, or has no client to give.                                        *)
(***************************************************************************)
EndpointOutcomes == {"ok", "no_rows", "query_failed", "second_failed", "no_client"}

\* who the request names: agentA in the path, agentB in the header
AgentRequests ==
    {[NoRequest EXCEPT !.path = pa, !.header = h] : pa \in {"", "agentA"}, h \in {"", "agentB"}}

ReminderTimes ==
    {Undefined, Null, Str(<<>>), Number(930),
     Str(<<"9", ":", "3", "0">>),
     Str(<<"1", "4", ":", "0", "5", ":", "0", "9">>),
     Str(<<"2", "5", ":", "0", "0">>),
     Str(<<"1", "0", ":", "6", "1", ":", "0", "0">>),
     Str(<<"n", "u", "l", "l">>),
     Str(<<"a", "b", "c">>),
     Str(<<"2", "0", "2", "5", "-", "1", "3", "-", "0", "1">>)}

WriteBodies ==
    {[NoReminderBody EXCEPT !.Title = f[1], !.ReminderType = f[2], !.ReminderDate = f[3],
                            !.ReminderTime = t, !.Priority = pr, !.EnableSMS = sms,
                            !.EnablePushNotification = push, !.Notes = pr] :
        f \in {<<"Call client", "Call", "2025-03-10">>, <<"", "Call", "2025-03-10">>,
               <<"Call client", "", "">>},
        t \in ReminderTimes, pr \in {"", "High"}, sms \in {"undefined", "true", "false"},
        push \in {"undefined", "false"}}

DaysAheadInputs ==
    {<<>>, <<"0">>, <<"1">>, <<"3", "0">>, <<"3", "6", "5">>, <<"3", "6", "6">>,
     <<"a", "b", "c">>, <<"-", "5">>, <<"7", ".", "5">>, <<"1", "2", "a", "b", "c">>,
     <<"1", "e", "3">>}

\* the handler of `op` has answered (or, for updateReminder, is suspended
\* before its follow-up read)
Exchange(op, req, d3, d4, outcome, resp) ==
    /\ rx' = [pc |-> IF op = "updateReminder" /\ resp.status = 200
                     THEN "refetch" ELSE "done",
              op |-> op, req |-> req, d3 |-> d3, d4 |-> d4, outcomes |-> <<outcome>>,
              agent |-> resp.agent, calls |-> resp.calls, trace |-> resp.trace,
              status |-> resp.status]
    /\ pool' = pool + CheckedOut(resp.trace)
    /\ UNCHANGED <<apptVars, remVars, timeVars, viewVars, pureVars, lifeVars>>

\* a request whose handler takes no time: d3 and d4 are not consulted
Plain(op, req, outcome, resp) == Exchange(op, req, InvalidDate, InvalidDate, outcome, resp)

CreateReminder ==
    /\ rx.pc = "idle" /\ remx.pc = "idle"
    /\ \E a \in AgentRequests, b \in WriteBodies, o \in EndpointOutcomes \ {"no_rows", "second_failed"} :
         LET req == [a EXCEPT !.path = "", !.body = b]
             cleanTime == Trim(ToStringOf(b.ReminderTime))
         IN  \E d3 \in NewDate(cleanTime), d4 \in NewDate(DatePrefix \o cleanTime) :
                 Exchange("createReminder", req, d3, d4, o, createReminder(req, d3, d4, o))

UpdateReminder ==
    /\ rx.pc = "idle" /\ remx.pc = "idle"
    /\ \E a \in AgentRequests, id \in {"", "r1"}, b \in WriteBodies,
          o \in EndpointOutcomes \ {"second_failed"} :
         LET req == [a EXCEPT !.reminderId = id, !.body = b]
             cleanTime == Trim(ToStringOf(b.ReminderTime))
         IN  \E d3 \in NewDate(cleanTime), d4 \in NewDate(DatePrefix \o cleanTime) :
                 Exchange("updateReminder", req, d3, d4, o, updateReminder(req, d3, d4, o))

UpdateReminder_refetch ==
    /\ rx.pc = "refetch"
    /\ \E o \in EndpointOutcomes \ {"second_failed"} :
         LET resp == updateReminder_refetch(rx, o)
         IN  /\ rx' = [rx EXCEPT !.pc = "done", !.outcomes = Append(@, o), !.calls = resp.calls,
                                 !.trace = resp.trace, !.status = resp.status]
             /\ pool' = pool + CheckedOut(resp.trace) - CheckedOut(rx.trace)
    /\ UNCHANGED <<apptVars, remVars, timeVars, viewVars, pureVars, lifeVars>>

GetReminderById ==
    /\ rx.pc = "idle" /\ remx.pc = "idle"
    /\ \E a \in AgentRequests, id \in {"", "r1"}, o \in EndpointOutcomes \ {"second_failed"} :
         LET req == [a EXCEPT !.reminderId = id]
         IN  Plain("getReminderById", req, o, getReminderById(req, o))

DeleteReminder ==
    /\ rx.pc = "idle" /\ remx.pc = "idle"
    /\ \E a \in AgentRequests, id \in {"", "r1"}, o \in EndpointOutcomes \ {"second_failed"} :
         LET req == [a EXCEPT !.reminderId = id]
         IN  Plain("deleteReminder", req, o, byIdHandler("sp_delete_reminder", req, o))

CompleteReminder ==
    /\ rx.pc = "idle" /\ remx.pc = "idle"
    /\ \E a \in AgentRequests, id \in {"", "r1"}, o \in EndpointOutcomes \ {"second_failed"} :
         LET req == [a EXCEPT !.reminderId = id]
         IN  Plain("completeReminder", req, o, byIdHandler("sp_complete_reminder", req, o))

GetTodayReminders ==
    /\ rx.pc = "idle" /\ remx.pc = "idle"
    /\ \E req \in AgentRequests, o \in EndpointOutcomes :
         Plain("getTodayReminders", req, o, getTodayReminders(req, o))

GetReminderSettings ==
    /\ rx.pc = "idle" /\ remx.pc = "idle"
    /\ \E req \in AgentRequests, o \in EndpointOutcomes \ {"second_failed"} :
         Plain("getReminderSettings", req, o,
               agentHandler("sp_get_reminder_settings", req, o))

UpdateReminderSettings ==
    /\ rx.pc = "idle" /\ remx.pc = "idle"
    /\ \E a \in AgentRequests, ty \in {"", "Call"}, en \in {"undefined", "true", "false"},
          o \in EndpointOutcomes \ {"second_failed"} :
         LET req == [a EXCEPT !.body = [NoReminderBody EXCEPT !.ReminderType = ty,
                                                              !.IsEnabled = en]]
         IN  Plain("updateReminderSettings", req, o, updateReminderSettings(req, o))

GetReminderStatistics ==
    /\ rx.pc = "idle" /\ remx.pc = "idle"
    /\ \E req \in AgentRequests, o \in EndpointOutcomes \ {"second_failed"} :
         Plain("getReminderStatistics", req, o,
               agentHandler("sp_get_reminder_statistics", req, o))

GetRemindersByType ==
    /\ rx.pc = "idle" /\ remx.pc = "idle"
    /\ \E a \in AgentRequests, seg \in {"", "Call", "Lunch"},
          o \in EndpointOutcomes \ {"second_failed"} :
         LET req == [a EXCEPT !.segment = seg]
         IN  Plain("getRemindersByType", req, o,
                   segmentHandler("sp_get_reminders_by_type", validateReminderType(seg),
                                  req, o))

GetRemindersByStatus ==
    /\ rx.pc = "idle" /\ remx.pc = "idle"
    /\ \E a \in AgentRequests, seg \in {"", "Active", "Paused"},
          o \in EndpointOutcomes \ {"second_failed"} :
         LET req == [a EXCEPT !.segment = seg]
         IN  Plain("getRemindersByStatus", req, o,
                   segmentHandler("sp_get_reminders_by_status", validateStatus(seg),
                                  req, o))

GetBirthdayReminders ==
    /\ rx.pc = "idle" /\ remx.pc = "idle"
    /\ \E req \in AgentRequests, o \in EndpointOutcomes \ {"second_failed"} :
         Plain("getBirthdayReminders", req, o,
               agentHandler("sp_get_today_birthday_reminders", req, o))

GetPolicyExpiryReminders ==
    /\ rx.pc = "idle" /\ remx.pc = "idle"
    /\ \E a \in AgentRequests, raw \in DaysAheadInputs,
          o \in EndpointOutcomes \ {"second_failed"} :
         LET req == [a EXCEPT !.daysAhead = raw]
         IN  Plain("getPolicyExpiryReminders", req, o, getPolicyExpiryReminders(req, o))

ValidatePhoneNumber ==
    /\ rx.pc = "idle" /\ remx.pc = "idle"
    /\ \E a \in AgentRequests, ph \in {"", "0712345678"},
          o \in EndpointOutcomes \ {"second_failed"} :
         LET req == [a EXCEPT !.path = "", !.body = [NoReminderBody EXCEPT !.phoneNumber = ph]]
         IN  Plain("validatePhoneNumber", req, o, validatePhoneNumber(req, o))

\* getAllReminders among the other endpoints
GetAllByAgent ==
    /\ rx.pc = "idle" /\ remx.pc = "idle"
    /\ \E req \in AgentRequests, q \in NarrowQueries, o \in RetrievalOutcomes :
           getAllReminders(agentIdOf(req), q, <<>>, o)
    /\ pool' = pool + CheckedOut(remx'.trace)
    /\ UNCHANGED <<apptVars, today, remindersTbl, clientsTbl, policiesTbl, timeVars, rx, viewVars, pureVars, lifeVars>>

\* the caller has read the response and may send its next request
DeliverEndpoint ==
    /\ rx.pc = "done"
    /\ rx' = NoEndpoint
    /\ UNCHANGED <<apptVars, remVars, timeVars, pool, viewVars, pureVars, lifeVars>>

NextEndpoints ==
    \/ CreateReminder \/ UpdateReminder \/ UpdateReminder_refetch \/ GetReminderById
    \/ DeleteReminder \/ CompleteReminder \/ GetTodayReminders \/ GetReminderSettings
    \/ UpdateReminderSettings \/ GetReminderStatistics \/ GetRemindersByType
    \/ GetRemindersByStatus \/ GetBirthdayReminders \/ GetPolicyExpiryReminders
    \/ ValidatePhoneNumber \/ GetAllByAgent \/ DeliverPage \/ DeliverEndpoint

SpecEndpoints == Init /\ [][NextEndpoints]_vars

(***************************************************************************)
(* SpecViews: the week view and the calendar view over the same rows, for  *)
(* every sequence of up to MaxViewRows rows.                               *)
(***************************************************************************)
MaxViewRows == 3

DayNames == [d \in Dates |-> IF d = "2025-03-10" THEN "Monday" ELSE "Tuesday"]

ViewRowValues ==
    {[appointment_date |-> d, day_name |-> DayNames[d], appointment_id |-> id,
      agent_id |-> "agentA", start_time |-> 1, end_time |-> 2] :
        d \in Dates, id \in AppointmentIds \cup {NoId}}

ViewRowSeqs == UNION {[1..n -> ViewRowValues] : n \in 0..MaxViewRows}

InitViews ==
    /\ InitAppointments
    /\ QuietReminders
    /\ QuietTime
    /\ QuietEndpoints
    /\ viewRows \in ViewRowSeqs
    /\ views = NoViews
    /\ QuietPure
    /\ QuietLifecycle

GetWeekView ==
    /\ ~views.weekBuilt
    /\ views' = [views EXCEPT !.weekBuilt = TRUE,
                              !.week = getWeekViewAppointments(viewRows)]
    /\ UNCHANGED <<apptVars, remVars, timeVars, endpointVars, viewRows, pureVars, lifeVars>>

GetCalendarView ==
    /\ ~views.calendarBuilt
    /\ views' = [views EXCEPT !.calendarBuilt = TRUE,
                              !.calendar = getCalendarViewAppointments(viewRows)]
    /\ UNCHANGED <<apptVars, remVars, timeVars, endpointVars, viewRows, pureVars, lifeVars>>

NextViews == GetWeekView \/ GetCalendarView

SpecViews == InitViews /\ [][NextViews]_vars

(***************************************************************************)
(* Properties of the reminder endpoints                                    *)
(***************************************************************************)
EndpointAnswered == rx.pc \in {"refetch", "done"}

\* the write request passed the checks of its handler and reached the service
AdmittedWrite ==
    /\ EndpointAnswered
    /\ \/ /\ rx.op = "createReminder"
          /\ Truthy(rx.req.header)
          /\ Truthy(rx.req.body.Title) /\ Truthy(rx.req.body.ReminderType)
          /\ Truthy(rx.req.body.ReminderDate)
       \/ /\ rx.op = "updateReminder"
          /\ Truthy(agentIdOf(rx.req)) /\ Truthy(rx.req.reminderId)

\* a ReminderTime was supplied and the normaliser could not make a time of it
MalformedTime ==
    /\ TruthyValue(rx.req.body.ReminderTime)
    /\ validateAndFormatPostgreSQLTime(rx.req.body.ReminderTime, rx.d3, rx.d4).isNull

WriteProc == IF rx.op = "createReminder" THEN "sp_create_reminder" ELSE "sp_update_reminder"

PassedFields == {"Title", "ReminderDate", "Priority", "EnableSMS", "EnablePushNotification", "Notes"}

\* the status that the answers of storage alone call for
StatusByStorage ==
    CASE rx.op = "createReminder" -> IF rx.outcomes = <<"ok">> THEN 201 ELSE 500
      [] rx.outcomes = <<"no_rows">> -> 404
      [] rx.outcomes = <<"ok">> -> 200
      [] Len(rx.outcomes) = 2 /\ rx.outcomes[2] \in {"ok", "no_rows"} -> 200
      [] OTHER -> 500

\* C11: a write request whose ReminderTime cannot be normalised still issues
\* its storage call whenever storage hands out a client, with a null time
\* parameter and every other supplied (non-empty) field passed as supplied,
\* and its status is the one the answers of storage alone call for.
C11_MalformedTimeNeverBlocksWrite ==
    (AdmittedWrite /\ MalformedTime) =>
        /\ rx.status = StatusByStorage
        /\ rx.outcomes[1] # "no_client" =>
              /\ rx.calls # <<>>
              /\ rx.calls[1].proc = WriteProc
              /\ rx.calls[1].args.ReminderTime = Null
              /\ \A f \in PassedFields :
                     Truthy(rx.req.body[f]) => rx.calls[1].args[f] = rx.req.body[f]

C11_MalformedTimeStoredWitness ==
    /\ rx.pc = "done" /\ rx.op = "createReminder"
    /\ rx.req.body.ReminderTime = Str(<<"2", "5", ":", "0", "0">>)
    /\ rx.req.body.Priority = "High"
    /\ rx.status = 201
    /\ rx.calls[1].args.ReminderTime = Null
    /\ rx.calls[1].args.Priority = "High"

\* the policy-expiry request named an agent, so that only daysAhead decides
PolicyExpiryAnswered ==
    /\ rx.pc = "done" /\ rx.op = "getPolicyExpiryReminders"
    /\ Truthy(agentIdOf(rx.req))

\* the text is a decimal integer between MinDaysAhead and MaxDaysAhead
IntegerInRange(raw) ==
    /\ raw # <<>>
    /\ \A i \in 1..Len(raw) : IsDigit(raw[i])
    /\ DecValue(raw) >= MinDaysAhead /\ DecValue(raw) <= MaxDaysAhead

Queried(horizon) ==
    rx.outcomes[1] # "no_client" =>
        /\ Len(rx.calls) = 1
        /\ rx.calls[1] = Call("sp_get_policy_expiry_reminders",
                              <<agentIdOf(rx.req), horizon>>)

\* C12: getPolicyExpiryReminders queries with horizon 30 when daysAhead is
\* absent and with the supplied value when it is an integer in [1,365]; every
\* other supplied daysAhead is answered 400 and no storage query is issued.
C12_DaysAheadValidated ==
    PolicyExpiryAnswered =>
        IF rx.req.daysAhead = <<>> THEN Queried(DefaultDaysAhead)
        ELSE IF IntegerInRange(rx.req.daysAhead) THEN Queried(DecValue(rx.req.daysAhead))
        ELSE rx.status = 400 /\ rx.calls = <<>>

\* C13: a request to a reminder endpoint that names no agent (neither path
\* segment nor x-agent-id header) is answered 400 without a storage call;
\* when both name one, the handler acts for the agent of the path; the agent
\* a handler acts for is always one the request named.
C13_AgentIdRequired ==
    /\ EndpointAnswered =>
          /\ (rx.req.path = "" /\ rx.req.header = "") =>
                 (rx.status = 400 /\ rx.calls = <<>>)
          /\ (rx.req.path # "" /\ rx.req.header # "" /\ rx.calls # <<>>) =>
                 rx.agent = rx.req.path
          /\ rx.agent # "" => rx.agent \in {rx.req.path, rx.req.header}
    /\ (remx.pc = "done" /\ remx.agent = "") =>
          (remx.status = 400 /\ remx.calls = <<>>)

\* the events of one or more operations in a row: every client obtained is
\* queried only while checked out and released once, before the next is
\* obtained and before the end
RECURSIVE ReleasedOnce(_, _)
ReleasedOnce(trace, out) ==
    IF trace = <<>> THEN out = 0
    ELSE CASE Head(trace) = "connect" -> out = 0 /\ ReleasedOnce(Tail(trace), 1)
           [] Head(trace) = "query" -> out = 1 /\ ReleasedOnce(Tail(trace), 1)
           [] Head(trace) = "release" -> out = 1 /\ ReleasedOnce(Tail(trace), 0)
           [] OTHER -> FALSE

\* C14: every ReminderService operation that obtained a client releases it
\* exactly once before it returns or throws, whatever query failed, so that
\* no client is checked out once the operations have completed.
C14_ClientReleasedExactlyOnce ==
    /\ ReleasedOnce(rx.trace, 0)
    /\ ReleasedOnce(remx.trace, 0)
    /\ pool = 0

C14_FallbackFailedWitness ==
    /\ rx.pc = "done" /\ rx.op = "getTodayReminders"
    /\ rx.outcomes = <<"second_failed">>
    /\ rx.status = 500
    /\ rx.trace = <<"connect", "query", "query", "release">>
    /\ pool = 0

(***************************************************************************)
(* Properties of the appointment error handling                            *)
(***************************************************************************)
ResponseOf(x) == <<x.status, x.Success, x.message, x.detail, x.created>>

\* C15: the confirmation mail is attempted only once the creation write has
\* reported success with an appointment id, and whatever it does (sent, no
\* address, details not fetched, mail not sent) the response is the one
\* built before it and the appointments table is left as it was.
C15_NotificationIsolated ==
    [][\A c \in Callers :
          /\ (exch[c].notified = "none" /\ exch'[c].notified # "none") =>
                 /\ exch[c].pc = "notify"
                 /\ Truthy(exch[c].Success) /\ exch[c].created # NoId
                 /\ exch[c].created \in DOMAIN appointments
                 /\ ResponseOf(exch'[c]) = ResponseOf(exch[c])
                 /\ exch'[c].status = 201
                 /\ appointments' = appointments
          /\ (exch[c].pc # "notify" /\ exch'[c].pc = "notify") =>
                 /\ Truthy(exch'[c].Success) /\ exch'[c].created # NoId
                 /\ exch'[c].created \in DOMAIN appointments'
      ]_vars

C15_MailFailedWitness ==
    /\ exch[SeqCaller].pc = "done" /\ exch[SeqCaller].op = "create"
    /\ exch[SeqCaller].notified = "mail_failed"
    /\ exch[SeqCaller].status = 201 /\ exch[SeqCaller].Success = "true"
    /\ exch[SeqCaller].created \in DOMAIN appointments

ConstraintCodes == {"23505", "23503", "23514"}

\* the message of the domain for a constraint violation: conflict, invalid
\* reference, invalid format
DomainMessage(code) ==
    CASE code = "23505" -> "Appointment conflict detected - time slot already booked"
      [] code = "23503" -> "Invalid client or agent ID provided"
      [] code = "23514" -> "Invalid appointment data format"

\* the exchanges of `ops` whose storage call ended with one of `codes`
Failed(c, ops, codes) ==
    /\ exch[c].pc \in {"notify", "done"}
    /\ exch[c].op \in ops
    /\ exch[c].outcome \in codes

\* C16: when the storage call of a create or an update ends with a
\* constraint violation, the response carries the message of the domain for
\* that violation and none of the storage error's own text.
C16_ConstraintViolationsTranslated ==
    \A c \in Callers :
        Failed(c, {"create", "update"}, ConstraintCodes) =>
            /\ exch[c].message = DomainMessage(exch[c].outcome)
            /\ exch[c].detail = ""

\* C17: when the storage call of an appointment operation fails with an
\* error that is no recognised constraint violation, the caller is answered
\* 500 with the underlying message.
C17_UnclassifiedFailureIsServerError ==
    \A c \in Callers :
        Failed(c, {"create", "update", "delete", "check"}, {"other"}) =>
            /\ exch[c].status = 500
            /\ exch[c].detail = ErrorText("other")

(***************************************************************************)
(* Properties of the pagination of getAllReminders                         *)
(***************************************************************************)
\* the request asked for a page size or a page number that is zero or less
OutOfRangePaging ==
    \E k \in {"PageSize", "PageNumber"} \cap DOMAIN remx.filters : remx.filters[k] <= 0

\* C18: a getAllReminders request whose page size or page number is zero or
\* negative is answered 400 without a storage query, and no response carries
\* a negative pageSize, currentPage or totalPages.
C18_PaginationValidated ==
    remx.pc = "done" =>
        /\ OutOfRangePaging => (remx.status = 400 /\ remx.calls = <<>>)
        /\ remx.page.pageSize >= 0
        /\ remx.page.currentPage >= 0
        /\ remx.page.totalPages >= 0

(***************************************************************************)
(* Properties of the views                                                 *)
(***************************************************************************)
ViewDates == {viewRows[i].appointment_date : i \in 1..Len(viewRows)}

FirstRowOf(date) ==
    CHOOSE i \in 1..Len(viewRows) :
        /\ viewRows[i].appointment_date = date
        /\ \A j \in 1..(i - 1) : viewRows[j].appointment_date # date

\* the rows of `date` that carry an appointment id, in the order of the rows
BookedRowsOf(date) ==
    SelectSeq(viewRows, LAMBDA r : r.appointment_date = date /\ r.appointment_id # NoId)

\* C19: the week view has exactly one entry per distinct date of the rows,
\* in the order in which the dates first occur; the entry of a date lists
\* exactly the rows of that date that carry an appointment id, in row order,
\* so a date without such rows has an entry with an empty list.
C19_WeekViewOneEntryPerDate ==
    views.weekBuilt =>
        LET week == views.week
        IN  /\ {week[k].date : k \in 1..Len(week)} = ViewDates
            /\ Len(week) = Cardinality(ViewDates)
            /\ \A k, l \in 1..Len(week) :
                   k < l => FirstRowOf(week[k].date) < FirstRowOf(week[l].date)
            /\ \A k \in 1..Len(week) :
                   LET booked == BookedRowsOf(week[k].date)
                   IN  /\ Len(week[k].appointments) = Len(booked)
                       /\ \A j \in 1..Len(booked) :
                              /\ week[k].appointments[j].appointmentId =
                                     booked[j].appointment_id
                              /\ week[k].appointments[j].appointmentDate = week[k].date

C19_EmptyDayListedWitness ==
    /\ views.weekBuilt
    /\ Len(views.week) = 2
    /\ views.week[1].appointments = <<>>
    /\ Len(views.week[2].appointments) = 2

\* C20: the calendar view has no entry for a date whose rows carry no
\* appointment id: no entry has an empty appointments list or
\* appointmentCount 0.
C20_CalendarOmitsEmptyDates ==
    views.calendarBuilt =>
        \A k \in 1..Len(views.calendar) :
            /\ views.calendar[k].appointments # <<>>
            /\ views.calendar[k].appointmentCount > 0
            /\ BookedRowsOf(views.calendar[k].date) # <<>>

RECURSIVE SumCounts(_)
SumCounts(entries) ==
    IF entries = <<>> THEN 0
    ELSE entries[1].appointmentCount + SumCounts(Tail(entries))

BookedRows == SelectSeq(viewRows, LAMBDA r : r.appointment_id # NoId)

\* C26: in the calendar view every entry's appointmentCount is the length
\* of its appointments list, and the counts of all entries add up to the
\* number of rows that carry an appointment id.
C26_CalendarCountsMatchRows ==
    views.calendarBuilt =>
        /\ \A k \in 1..Len(views.calendar) :
               views.calendar[k].appointmentCount = Len(views.calendar[k].appointments)
        /\ SumCounts(views.calendar) = Len(BookedRows)

C26_TwoDatesCountedWitness ==
    /\ views.calendarBuilt
    /\ Len(views.calendar) = 2
    /\ views.calendar[1].appointmentCount = 2
    /\ views.calendar[2].appointmentCount = 1

(***************************************************************************)
(* Properties of the values the reminder writes pass to storage           *)
(***************************************************************************)
\* the write reached storage: the first call of the exchange is its procedure
WriteIssued(op) ==
    /\ EndpointAnswered
    /\ rx.op = op
    /\ rx.calls # <<>>
    /\ rx.calls[1].proc = WriteProc

\* the value of a boolean field the request supplied, `absent` when the
\* request has no such field
Supplied(x, absent) == IF x = "undefined" THEN absent ELSE x

\* C28: createReminder passes a default only for a field the request does
\* not carry (Priority 'Medium', EnableSMS false, EnablePushNotification
\* true) and passes every supplied value unchanged, an
\* EnablePushNotification of false included.
C28_CreateDefaultsOnlyWhenAbsent ==
    WriteIssued("createReminder") =>
        LET body == rx.req.body
            args == rx.calls[1].args
        IN  /\ args.Priority = (IF body.Priority = "" THEN "Medium" ELSE body.Priority)
            /\ args.EnableSMS = Supplied(body.EnableSMS, "false")
            /\ args.EnablePushNotification = Supplied(body.EnablePushNotification, "true")

\* C29: updateReminder passes every supplied field with its supplied value
\* and null exactly for the fields the request does not carry, so that an
\* explicit false of a channel flag reaches storage as false.
C29_UpdateForwardsSuppliedValues ==
    WriteIssued("updateReminder") =>
        LET body == rx.req.body
            args == rx.calls[1].args
        IN  /\ args.Priority = body.Priority
            /\ args.Notes = body.Notes
            /\ args.EnableSMS = Supplied(body.EnableSMS, "null")
            /\ args.EnablePushNotification = Supplied(body.EnablePushNotification, "null")

(***************************************************************************)
(* Properties of the Success field of the appointment responses           *)
(***************************************************************************)
\* storage returned a result row to the write of caller c
RowReturned(c) ==
    /\ exch[c].pc \in {"notify", "done"}
    /\ exch[c].op \in {"create", "update", "delete"}
    /\ exch[c].calls # <<>>
    /\ exch[c].outcome \in {"ok", "declined"}

\* C30: the Success field built from a result row of the create, update
\* and delete procedures is a boolean, true or false and never undefined,
\* and the create endpoint answers 201 exactly when an appointment was
\* created.
C30_SuccessIsBoolean ==
    \A c \in Callers :
        RowReturned(c) =>
            /\ exch[c].Success \in {"true", "false"}
            /\ exch[c].op = "create" =>
                   (exch[c].status = 201 <=> exch[c].created # NoId)

(***************************************************************************)
(* Properties of the birthday part of the unfiltered total                 *)
(***************************************************************************)
\* what is left of the unfiltered total once the reminders, the expiring
\* policies and the active appointments of the agent are taken off
BirthdayPartOfTotal ==
    remx.page.totalRecords
        - Cardinality(NativeReminders(remx.agent))
        - Cardinality(ExpiringPolicies(remx.agent))
        - Cardinality(ActiveAppointments(remx.agent))

\* C24: the birthday part of the unfiltered total is the number of active
\* clients of the agent whose next birthday falls on one of the days
\* today .. today + 7, also when those days reach into the next year.
C24_BirthdayWindowCrossesYearEnd ==
    (Answered /\ UsedPath("sp_get_all_reminders")) =>
        BirthdayPartOfTotal = Cardinality(UpcomingBirthdays(remx.agent))

(***************************************************************************)
(* SpecRoutes: one request to the reminder router, for every method and    *)
(* every path of RequestPaths.                                             *)
(***************************************************************************)
Methods == {"GET", "PUT", "POST", "DELETE"}

AgentPath(rest) == <<"agent", "agentA">> \o rest

RequestPaths ==
    {<<>>, <<"today">>, <<"statistics">>, <<"settings">>, <<"birthdays">>,
     <<"policy-expiry">>, <<"r1">>, <<"validate-phone">>, <<"r1", "complete">>,
     AgentPath(<<>>), AgentPath(<<"today">>), AgentPath(<<"statistics">>),
     AgentPath(<<"settings">>), AgentPath(<<"birthdays">>),
     AgentPath(<<"policy-expiry">>), AgentPath(<<"type", "Call">>),
     AgentPath(<<"status", "Active">>), AgentPath(<<"reminder", "r1">>),
     AgentPath(<<"reminder", "r1", "complete">>)}

InitRoutes ==
    /\ InitAppointments
    /\ QuietReminders
    /\ QuietTime
    /\ QuietEndpoints
    /\ QuietViews
    /\ routed \in {[NoRouted EXCEPT !.method = m, !.path = p] :
                      m \in Methods, p \in RequestPaths}
    /\ mapper = NoMapper
    /\ birthdays = NoBirthdays
    /\ QuietLifecycle

DispatchRequest ==
    /\ routed.pc = "idle"
    /\ routed' = [routed EXCEPT !.pc = "done",
                                !.handler = Dispatch(routed.method, routed.path)]
    /\ UNCHANGED <<apptVars, remVars, timeVars, endpointVars, viewVars, mapper,
                   birthdays, lifeVars>>

NextRoutes == DispatchRequest

SpecRoutes == InitRoutes /\ [][NextRoutes]_vars

(***************************************************************************)
(* SpecMapper: one call of convertToAppointment on every row of MapperRows.*)
(***************************************************************************)
NameValues == {Undefined, Null, Bool(FALSE), Number(0), Str(<<>>), Str(<<"A">>),
               Str(<<"B">>)}
FlagValues == {Undefined, Null, Bool(FALSE), Bool(TRUE)}

MapperRows ==
    {[NoRow EXCEPT !.client_name = n[1], !.clientName = n[2], !.clientname = n[3],
                   !.reminder_set = f[1], !.reminderSet = f[2], !.reminderset = f[3],
                   !.is_active = a[1], !.isActive = a[2]] :
        n \in NameValues \X {Undefined, Str(<<>>), Str(<<"B">>)} \X {Undefined, Str(<<"C">>)},
        f \in FlagValues \X {Undefined, Bool(TRUE)} \X {Undefined, Bool(FALSE)},
        a \in {Undefined, Null, Bool(FALSE)} \X {Undefined, Bool(TRUE)}}

InitMapper ==
    /\ InitAppointments
    /\ QuietReminders
    /\ QuietTime
    /\ QuietEndpoints
    /\ QuietViews
    /\ routed = NoRouted
    /\ mapper \in {[NoMapper EXCEPT !.row = r] : r \in MapperRows}
    /\ birthdays = NoBirthdays
    /\ QuietLifecycle

ConvertRow ==
    /\ mapper.pc = "idle"
    /\ mapper' = [mapper EXCEPT !.pc = "done",
                                !.result = convertToAppointment_aliases(mapper.row)]
    /\ UNCHANGED <<apptVars, remVars, timeVars, endpointVars, viewVars, routed,
                   birthdays, lifeVars>>

NextMapper == ConvertRow

SpecMapper == InitMapper /\ [][NextMapper]_vars

(***************************************************************************)
(* SpecBirthdays: one call of sp_get_today_birthdays for every day of      *)
(* BirthdayTodays and every set of stored clients.                         *)
(***************************************************************************)
BirthdayTodays ==
    {Date(2023, 2, 28), Date(2023, 3, 1), Date(2023, 1, 2), Date(2024, 2, 28),
     Date(2024, 2, 29), Date(2000, 2, 29), Date(2100, 2, 28)}

InitBirthdays ==
    /\ InitAppointments
    /\ today \in BirthdayTodays
    /\ remindersTbl = {}
    /\ clientsTbl \in SUBSET ClientRows
    /\ policiesTbl = {}
    /\ remx = NoRemExchange
    /\ QuietTime
    /\ QuietEndpoints
    /\ QuietViews
    /\ QuietPure
    /\ QuietLifecycle

GetTodayBirthdays ==
    /\ birthdays.pc = "idle"
    /\ \E a \in Agents, k \in VariableConflicts :
           LET r == sp_get_today_birthdays(clientsTbl, a, today, k)
           IN  birthdays' = [pc |-> "done", agent |-> a, conflict |-> k,
                             raised |-> r.raised, rows |-> r.rows]
    /\ UNCHANGED <<apptVars, remVars, timeVars, endpointVars, viewVars, routed,
                   mapper, lifeVars>>

NextBirthdays == GetTodayBirthdays

SpecBirthdays == InitBirthdays /\ [][NextBirthdays]_vars

(***************************************************************************)
(* Properties of the reminder router                                       *)
(***************************************************************************)
\* the header-based routes and the handler documented for each
HeaderRoutes ==
    {Route("GET", <<"today">>, "getTodayReminders"),
     Route("GET", <<"statistics">>, "getReminderStatistics"),
     Route("GET", <<"settings">>, "getReminderSettings"),
     Route("PUT", <<"settings">>, "updateReminderSettings"),
     Route("GET", <<"birthdays">>, "getBirthdayReminders"),
     Route("GET", <<"policy-expiry">>, "getPolicyExpiryReminders")}

\* C25: a request to one of the header-based routes (GET /today,
\* GET /statistics, GET /settings, PUT /settings, GET /birthdays,
\* GET /policy-expiry) reaches the handler documented for it and not the
\* get-by-id or update handler of '/:reminderId'.
C25_HeaderRoutesReachTheirHandlers ==
    routed.pc = "done" =>
        \A r \in HeaderRoutes :
            (routed.method = r.method /\ routed.path = r.pattern) =>
                /\ routed.handler = r.handler
                /\ routed.handler \notin {"getReminderById", "updateReminder"}

(***************************************************************************)
(* Properties of the row mapper                                            *)
(***************************************************************************)
\* the value of the first of three aliases that is not undefined
FirstDefined(a, b, c) ==
    IF a # Undefined THEN a ELSE IF b # Undefined THEN b ELSE c

\* C21: each mapped field is the value of the first alias of its list that
\* is not undefined in the row, be it null, false, 0 or the empty string,
\* and is undefined only when the row has none of the aliases.
C21_FirstDefinedAliasWins ==
    mapper.pc = "done" =>
        LET row == mapper.row
        IN  /\ mapper.result.clientName =
                   FirstDefined(row.client_name, row.clientName, row.clientname)
            /\ mapper.result.reminderSet =
                   FirstDefined(row.reminder_set, row.reminderSet, row.reminderset)
            /\ mapper.result.isActive =
                   FirstDefined(row.is_active, row.isActive, row.isactive)

(***************************************************************************)
(* Properties of the birthday leap-day rule                                *)
(***************************************************************************)
\* the day on which a birth date is celebrated in year y
CelebratedIn(dob, y) ==
    IF dob.m = 2 /\ dob.d = 29
    THEN IF y % 400 = 0 \/ (y % 4 = 0 /\ y % 100 # 0)
         THEN Date(y, 2, 29) ELSE Date(y, 2, 28)
    ELSE Date(y, dob.m, dob.d)

BornClients == {cl \in clientsTbl : cl.date_of_birth # NoDob}

\* C23: the birthday used in the current year is Feb 28 for a client born
\* on Feb 29 exactly when the current year is no leap year and the same
\* month and day otherwise, and today's birthdays, read from the clients
\* table, are the active clients of the agent whose birthday of the current
\* year is today, so that a Feb-29 birthday triggers on Feb 28 of a
\* non-leap year.
C23_LeapDayBirthdayOnFeb28 ==
    /\ \A cl \in BornClients :
           BirthdayThisYear(cl.date_of_birth, today) =
               CelebratedIn(cl.date_of_birth, today.y)
    /\ (birthdays.pc = "done" /\ birthdays.conflict = "use_column") =>
           birthdays.rows =
               {cl.client_id : cl \in
                   {c \in BornClients :
                       /\ c.agent_id = birthdays.agent
                       /\ c.is_active
                       /\ CelebratedIn(c.date_of_birth, today.y) = today}}

(***************************************************************************)
(* SpecLifecycle: the update, complete and delete requests of two callers  *)
(* on one stored reminder.  The requests interleave at the storage calls:  *)
(* between the update call of updateReminder and its getReminderById the   *)
(* other caller's request may run.                                         *)
(***************************************************************************)
InitLifecycle ==
    /\ InitAppointments
    /\ QuietReminders
    /\ QuietTime
    /\ QuietEndpoints
    /\ QuietViews
    /\ QuietPure
    /\ store = [id \in ReminderIds |-> "Active"]
    /\ lx = [c \in Callers |-> NoLife]

LifeRequest(agent, id, status) ==
    [NoRequest EXCEPT !.header = agent, !.reminderId = id,
                      !.body = [NoReminderBody EXCEPT !.Status = status]]

\* the handler ran up to its response or, for updateReminder answered with
\* rows affected, up to the getReminderById that follows
Handled(c, op, req, resp, body) ==
    /\ lx' = [lx EXCEPT ![c] =
                  [pc |-> IF op = "updateReminder" /\ resp.status = 200
                          THEN "refetch" ELSE "done",
                   op |-> op, req |-> req, agent |-> resp.agent, calls |-> resp.calls,
                   trace |-> resp.trace, status |-> resp.status, body |-> body]]
    /\ UNCHANGED <<apptVars, remVars, timeVars, endpointVars, viewVars, pureVars>>

LifeUpdate(c) ==
    /\ lx[c].pc = "idle"
    /\ \E a \in Agents, id \in ReminderIds, st \in Statuses \cup {""}, fail \in Failures :
           LET req == LifeRequest(a, id, st)
               o == AnswerOf(store, id, a, fail)
               resp == updateReminder(req, InvalidDate, InvalidDate, o)
           IN  /\ store' = IF o = "ok" THEN Stored(store, resp.calls) ELSE store
               /\ Handled(c, "updateReminder", req, resp,
                          IF resp.status = 200 THEN "" ELSE "message")

LifeUpdate_refetch(c) ==
    /\ lx[c].pc = "refetch"
    /\ \E fail \in Failures :
           LET o == AnswerOf(store, lx[c].req.reminderId, lx[c].agent, fail)
               resp == updateReminder_refetch(lx[c], o)
           IN  lx' = [lx EXCEPT ![c] = [@ EXCEPT !.pc = "done", !.calls = resp.calls,
                                                  !.trace = resp.trace,
                                                  !.status = resp.status,
                                                  !.body = resp.body]]
    /\ UNCHANGED <<apptVars, remVars, timeVars, endpointVars, viewVars, pureVars, store>>

LifeById(c, op, proc) ==
    /\ lx[c].pc = "idle"
    /\ \E a \in Agents, id \in ReminderIds, fail \in Failures :
           LET req == LifeRequest(a, id, "")
               o == AnswerOf(store, id, a, fail)
               resp == byIdHandler(proc, req, o)
           IN  /\ store' = IF o = "ok" THEN Stored(store, resp.calls) ELSE store
               /\ Handled(c, op, req, resp, "message")

LifeComplete(c) == LifeById(c, "completeReminder", "sp_complete_reminder")

LifeDelete(c) == LifeById(c, "deleteReminder", "sp_delete_reminder")

LifeDeliver(c) ==
    /\ lx[c].pc = "done"
    /\ lx' = [lx EXCEPT ![c] = NoLife]
    /\ UNCHANGED <<apptVars, remVars, timeVars, endpointVars, viewVars, pureVars, store>>

NextLifecycle ==
    \E c \in Callers :
        \/ LifeUpdate(c) \/ LifeUpdate_refetch(c) \/ LifeComplete(c)
        \/ LifeDelete(c) \/ LifeDeliver(c)

SpecLifecycle == InitLifecycle /\ [][NextLifecycle]_vars

(***************************************************************************)
(* Properties of the reminder lifecycle                                    *)
(***************************************************************************)
\* C22: the Status of a stored reminder changes only from Active to
\* Completed or from Active to Cancelled: once it is Completed or
\* Cancelled no request changes it again, an update carrying
\* Status = 'Active' included.
C22_TerminalStatusNeverChanges ==
    [][\A id \in ReminderIds :
          /\ (store[id] \in {"Completed", "Cancelled"} /\ store'[id] # "none")
                 => store'[id] = store[id]
          /\ (store[id] = "Active" /\ store'[id] # "none")
                 => store'[id] \in Statuses]_vars

\* C27: the 200 response of an update request carries the updated
\* reminder, never null, also when the other caller's delete request is
\* handled between the update call and the getReminderById that follows.
C27_UpdateAnswersWithEntity ==
    \A c \in Callers :
        (lx[c].pc = "done" /\ lx[c].op = "updateReminder" /\ lx[c].status = 200)
            => lx[c].body = "reminder"

====
